---- MODULE Spec2Model ----
(***************************************************************************)
(* Retrieval-and-ranking engine of the commerce agent: the row filter      *)
(* (agent/tools.py apply_filters), the staged relaxation pipeline and the  *)
(* keyword fallback nested in the /chat handler (app.py).                  *)
(*                                                                         *)
(* Text is modelled at character level: a Python str is a sequence of      *)
(* one-character strings, so that lower(), the dedup-key normalisation,    *)
(* tokenisation, substring tests and the pattern search of                 *)
(* Series.str.contains are computed, not assumed.  None and "" are both    *)
(* falsy in every test the code makes on a FilterSpec text field; both are *)
(* the empty sequence here.  An optional price is <<>> (None) or <<p>>.    *)
(***************************************************************************)
EXTENDS Integers, Sequences, FiniteSets, TLC

VARIABLES
    pc,             \* position inside the handler / function under check
    user_text,      \* last_user_text of the request
    filters,        \* strict_filters handed to search, pipeline and fallback
    top_k,          \* req.top_k as passed to _pick_with_filters/_keyword_fallback
    cand_idxs,      \* [i for i, _ in scored_list]
    chosen,         \* chosen list of _pick_with_filters
    stage1,         \* chosen as it was after stage 1 (history)
    staged,         \* chosen as it was after stage 3 (history)
    ran,            \* set of relaxation stages whose body ran (history)
    trace,          \* trace dictionary of the response
    fallback_idxs,  \* result of _keyword_fallback (<<>> when not called)
    products,       \* products of the response, as catalog positions
    frame,          \* apply_filters under check: the DataFrame (row labels)
    out,            \* apply_filters(frame, filters)
    out2,           \* apply_filters(out, filters)
    mode,           \* the entry point of a search: "text" or "similar"
    pid,            \* search_similar_to_id: the id looked up
    query,          \* query_emb of _search
    search_k,       \* top_k of _search and _mmr
    raw,            \* (index, score) pairs returned by _raw_search
    uniq,           \* (index, score) pairs after the -1 mask and the de-duplication
    selected,       \* _mmr: positions selected so far
    scored,         \* result of _search
    similar_out,    \* result of search_similar_to_id
    response,       \* GET /similar/{pid}: status code and products of the response
    catalog_ids,    \* CatalogIndex.__init__: list(self.df["id"]) of this startup
    emb_file,       \* the file catalog_embeddings.npy
    ids_file,       \* the file catalog_ids.json
    self_embeddings, \* self.embeddings
    loaded,         \* the local `loaded`
    self_index,     \* the rows added to self.index
    failures,       \* the cache operations that raised in this startup (history)
    INDEX,          \* app.py: the global INDEX, "None" or the published object
    obj,            \* the CatalogIndex object under construction, by attribute
    startup_pos,    \* the step startup() is at (0: it raised)
    disk_catalog,   \* the catalog file CATALOG_PATH points at
    q_pc,           \* per in-flight query: its position in its handler
    q_seen,         \* per in-flight query: what it has read so far
    has_image,      \* classify_intent: the argument has_image
    intent,         \* classify_intent: the value returned
    extracted,      \* the FilterSpec returned by extract_filters_rules
    ui,             \* chat: req.filters or FilterSpec()
    final_filters,  \* chat: the merged filters, the UI's fields first
    diversity,      \* _mmr: the argument diversity, in tenths
    mmr_out,        \* _mmr: the list returned
    _running_evals, \* api_endpoints.py: the job registry, job_id -> record
    eval_tasks,     \* the background tasks added so far, each with its position
    result_files,   \* the job ids whose evaluation/results/<job_id>.json exists
    eval_response   \* the last response of the status or results endpoint

searchVars == <<mode, pid, query, search_k, raw, uniq, selected, scored, similar_out,
                response>>

bootVars == <<catalog_ids, emb_file, ids_file, self_embeddings, loaded, self_index,
             failures>>

concVars == <<INDEX, obj, startup_pos, disk_catalog, q_pc, q_seen>>

intentVars == <<has_image, intent>>

requestVars == <<extracted, ui, final_filters>>

evalVars == <<_running_evals, eval_tasks, result_files, eval_response>>

restVars == <<requestVars, diversity, mmr_out, evalVars>>

\* the variables of the components a handler does not touch
otherVars == <<searchVars, bootVars, concVars, intentVars, restVars>>

vars == <<pc, user_text, filters, top_k, cand_idxs, chosen, stage1, staged, ran, trace,
          fallback_idxs, products, frame, out, out2, otherVars>>

(***************************************************************************)
(* Bounds of the model.                                                    *)
(***************************************************************************)
MaxCand == 3        \* longest candidate list handed to the pipeline
MaxTopK == 3        \* largest requested top_k
MaxNegTopK == 1     \* requested top_k ranges down to -MaxNegTopK
MaxRaw == 4         \* longest list returned by the raw similarity search
NumQueries == 3     \* queries in flight at once

(***************************************************************************)
(* Characters and Python string primitives.                                *)
(***************************************************************************)
UpperChars == <<"A","B","C","D","E","F","G","H","I","J","K","L","M",
                "N","O","P","Q","R","S","T","U","V","W","X","Y","Z">>
LowerChars == <<"a","b","c","d","e","f","g","h","i","j","k","l","m",
                "n","o","p","q","r","s","t","u","v","w","x","y","z">>
DigitChars == {"0","1","2","3","4","5","6","7","8","9"}

Range(s) == { s[i] : i \in 1..Len(s) }

\* the lowercase letter of every uppercase letter
LowerOf ==
    [ c \in Range(UpperChars) |-> LowerChars[CHOOSE i \in 1..26 : UpperChars[i] = c] ]

\* str.lower() on one character
lowerChar(c) == IF c \in DOMAIN LowerOf THEN LowerOf[c] ELSE c

\* str.lower()
lower(s) == [ i \in 1..Len(s) |-> lowerChar(s[i]) ]

AlnumChars == Range(UpperChars) \cup Range(LowerChars) \cup DigitChars
isalnum(c) == c \in AlnumChars
isspace(c) == c = " "

\* Python `sub in s`: literal, case-sensitive substring test
contains(sub, s) ==
    \E i \in 0..(Len(s) - Len(sub)) : SubSeq(s, i + 1, i + Len(sub)) = sub

\* One pattern character against one subject character under re.IGNORECASE.
\* "." is the one metacharacter of the patterns the model draws: it matches
\* any character; every other character of the model's alphabet (letters,
\* digits, " ", "-", ",", "!") is a literal in a regular expression.
patCharMatches(p, c) == p = "." \/ lowerChar(p) = lowerChar(c)

\* Series.str.contains(pat, case=False, na=False): pandas' default regex=True,
\* so pat is searched as a regular expression, ignoring case
str_contains(pat, s) ==
    \E i \in 0..(Len(s) - Len(pat)) :
        \A j \in 1..Len(pat) : patCharMatches(pat[j], s[i + j])

\* str.strip() for the one whitespace character of the alphabet
RECURSIVE lstrip(_)
lstrip(s) == IF s # <<>> /\ isspace(Head(s)) THEN lstrip(Tail(s)) ELSE s
RECURSIVE rstrip(_)
rstrip(s) ==
    IF s # <<>> /\ isspace(s[Len(s)]) THEN rstrip(SubSeq(s, 1, Len(s) - 1)) ELSE s
strip(s) == rstrip(lstrip(s))

\* seq[:k] of Python, k of either sign
Slice(s, k) ==
    IF k >= 0
    THEN SubSeq(s, 1, IF k < Len(s) THEN k ELSE Len(s))
    ELSE SubSeq(s, 1, IF Len(s) + k > 0 THEN Len(s) + k ELSE 0)

(***************************************************************************)
(* The catalog (INDEX.df): the three rows of the test fixture make_df,     *)
(* then a fourth row with another id whose title and brand differ from row *)
(* a only in case and punctuation.  Ids are unique, prices non-negative.   *)
(***************************************************************************)
Catalog == <<
    [id |-> "a", title |-> <<"N","i","k","e"," ","T","e","e">>,
     description |-> <<>>,
     category |-> <<"t","-","s","h","i","r","t">>,
     brand |-> <<"N","i","k","e">>, price |-> 25,
     tags |-> <<"b","r","e","a","t","h","a","b","l","e",",",
                "a","t","h","l","e","t","i","c">>],
    [id |-> "b", title |-> <<"A","d","i","d","a","s"," ","T","e","e">>,
     description |-> <<>>,
     category |-> <<"t","-","s","h","i","r","t">>,
     brand |-> <<"A","d","i","d","a","s">>, price |-> 30,
     tags |-> <<"a","t","h","l","e","t","i","c">>],
    [id |-> "c", title |-> <<"N","i","k","e"," ","H","o","o","d","i","e">>,
     description |-> <<>>,
     category |-> <<"h","o","o","d","i","e">>,
     brand |-> <<"N","i","k","e">>, price |-> 45,
     tags |-> <<"w","a","r","m">>],
    [id |-> "d", title |-> <<"N","I","K","E"," ","T","e","e","!">>,
     description |-> <<"s","o","f","t"," ","t","e","e">>,
     category |-> <<"T","-","S","h","i","r","t">>,
     brand |-> <<"n","i","k","e">>, price |-> 20,
     tags |-> <<"s","a","l","e">>] >>

Rows == 1..Len(Catalog)

(***************************************************************************)
(* FilterSpec values the requests draw from.                               *)
(***************************************************************************)
Brands == { <<>>, <<"N","i","k","e">>, <<"P","u","m","a">> }
Categories == { <<>>, <<"t","-","s","h","i","r","t">>, <<"t",".","s","h","i","r","t">> }
PriceBands == { <<<<>>, <<>>>>, <<<<>>, <<30>>>>, <<<<26>>, <<46>>>> }
TagTexts == { <<>>, <<"A","T","H","L","E","T","I","C">> }

FilterSpecs ==
    { [brand |-> b, category |-> c, price_min |-> p[1], price_max |-> p[2],
       tags_contains |-> t] :
        b \in Brands, c \in Categories, p \in PriceBands, t \in TagTexts }

\* the wider set apply_filters is checked on by itself
MoreCategories == Categories \cup { <<"S","H","I","R","T">>, <<"h","o","o","d">> }
MorePriceBands == PriceBands \cup { <<<<26>>, <<>>>>, <<<<25>>, <<45>>>>, <<<<0>>, <<0>>>> }
MoreTagTexts == TagTexts \cup { <<"a",".","h">> }

MoreFilterSpecs ==
    { [brand |-> b, category |-> c, price_min |-> p[1], price_max |-> p[2],
       tags_contains |-> t] :
        b \in Brands, c \in MoreCategories, p \in MorePriceBands, t \in MoreTagTexts }

NoFilters == [brand |-> <<>>, category |-> <<>>, price_min |-> <<>>,
              price_max |-> <<>>, tags_contains |-> <<>>]

\* Python truthiness of an Optional[str] field
truthy(s) == s # <<>>

(***************************************************************************)
(* agent/tools.py apply_filters: df is a DataFrame given by its row labels *)
(* (catalog positions, which boolean indexing keeps), filtered field by    *)
(* field in the order of the code.                                         *)
(***************************************************************************)
apply_filters(df, f) ==
    LET o1 == IF truthy(f.brand)
              THEN SelectSeq(df, LAMBDA i : lower(Catalog[i].brand) = lower(f.brand))
              ELSE df
        o2 == IF truthy(f.category)
              THEN SelectSeq(o1, LAMBDA i : str_contains(f.category, Catalog[i].category))
              ELSE o1
        o3 == IF f.price_min # <<>>
              THEN SelectSeq(o2, LAMBDA i : Catalog[i].price >= f.price_min[1])
              ELSE o2
        o4 == IF f.price_max # <<>>
              THEN SelectSeq(o3, LAMBDA i : Catalog[i].price <= f.price_max[1])
              ELSE o3
    IN  IF truthy(f.tags_contains)
        THEN SelectSeq(o4, LAMBDA i : str_contains(f.tags_contains, Catalog[i].tags))
        ELSE o4

(***************************************************************************)
(* app.py chat._pick_with_filters and its nested helpers.                  *)
(***************************************************************************)
\* norm: lowercase, keep alphanumerics and whitespace, strip
norm(s) == strip(SelectSeq(lower(s), LAMBDA ch : isalnum(ch) \/ isspace(ch)))

\* (norm(title), norm(brand)) of every catalog position
KeyOf == [ i \in Rows |-> <<norm(Catalog[i].title), norm(Catalog[i].brand)>> ]

\* the dedup key of catalog position i
key(i) == KeyOf[i]

RECURSIVE add_loop(_, _, _, _)
add_loop(acc, seen_keys, pool, k) ==
    IF pool = <<>> \/ Len(acc) >= k
    THEN acc
    ELSE IF key(Head(pool)) \in seen_keys
         THEN add_loop(acc, seen_keys, Tail(pool), k)
         ELSE add_loop(Append(acc, Head(pool)), seen_keys \cup {key(Head(pool))},
                       Tail(pool), k)

\* Variant of add_unique that forgets the seed.
add_unique_drops_seed(seed, pool, k) == add_loop(<<>>, {}, pool, k)

\* Variant of add_unique whose length test is off by one.
add_unique_off_by_one(seed, pool, k) ==
    add_loop(seed, { key(i) : i \in Range(seed) }, pool, k + 1)

\* add_unique(seed, pool) with the enclosing top_k as k
add_unique(seed, pool, k) ==
    add_loop(seed, { key(i) : i \in Range(seed) }, pool, k)

\* Variant of within_price_brand that does not look at the brand.
within_price_only(i, f) ==
    /\ f.price_min # <<>> => ~(Catalog[i].price < f.price_min[1])
    /\ f.price_max # <<>> => ~(Catalog[i].price > f.price_max[1])

within_price_brand(i, f) ==
    /\ f.price_min # <<>> => ~(Catalog[i].price < f.price_min[1])
    /\ f.price_max # <<>> => ~(Catalog[i].price > f.price_max[1])
    /\ truthy(f.brand) => ~(lower(Catalog[i].brand) # lower(f.brand))

\* INDEX.df as a DataFrame: all rows in catalog order
INDEX_df == [ i \in Rows |-> i ]

\* set(allowed["id"]) for allowed = apply_filters(df, f)
allowed_ids(f) == { Catalog[i].id : i \in Range(apply_filters(INDEX_df, f)) }

\* Variant of primary_all that lets every candidate through.
primary_all_unfiltered(cands, f) == cands

\* primary_all of stage 1
primary_all(cands, f) ==
    LET ids == allowed_ids(f)
    IN  SelectSeq(cands, LAMBDA i : Catalog[i].id \in ids)

\* cat_pool of stage 2
cat_pool(cands, sofar, f) ==
    SelectSeq(cands, LAMBDA i : /\ i \notin Range(sofar)
                                /\ contains(lower(f.category), lower(Catalog[i].category))
                                /\ within_price_brand(i, f))

\* fill_pool of stage 3
fill_pool(cands, sofar, f) ==
    SelectSeq(cands, LAMBDA i : i \notin Range(sofar) /\ within_price_brand(i, f))

\* int(os.environ.get("MIN_UNIQUE_RESULTS", "2")) at its default
min_unique == 2

Max(a, b) == IF a >= b THEN a ELSE b

\* the rebuilt list of the minimum-unique branch
min_unique_rebuild(cands, k) == Slice(add_unique(<<>>, cands, k), Max(min_unique, k))

(***************************************************************************)
(* app.py chat._keyword_fallback.  A score is kept exact by scaling: with  *)
(* price_max = mx > 0 every score is multiplied by 2*mx, otherwise by 2,   *)
(* which leaves the sign and every comparison within one call unchanged.   *)
(***************************************************************************)
any_filter(f) ==
    \/ truthy(f.brand) \/ truthy(f.category) \/ f.price_min # <<>>
    \/ f.price_max # <<>> \/ truthy(f.tags_contains)

\* ''.join([c if c.isalnum() else ' ' for c in text])
spaced(text) == [ i \in 1..Len(text) |-> IF isalnum(text[i]) THEN text[i] ELSE " " ]

\* set(... .split()): the maximal runs of non-blank characters
token_set(text) ==
    LET sp == spaced(text)
    IN  { SubSeq(sp, i, j) : <<i, j>> \in
            { ij \in (1..Len(sp)) \X (1..Len(sp)) :
                /\ ij[1] <= ij[2]
                /\ \A m \in ij[1]..ij[2] : sp[m] # " "
                /\ (ij[1] = 1 \/ sp[ij[1] - 1] = " ")
                /\ (ij[2] = Len(sp) \/ sp[ij[2] + 1] = " ") } }

\* the scale of the scores of one call
score_scale(f) ==
    IF f.price_max # <<>> /\ f.price_max[1] > 0 THEN 2 * f.price_max[1] ELSE 2

\* Variant of keyword_points without the title/description signal.
keyword_points_no_title(i, text, toks) ==
    LET row == Catalog[i]
    IN  (IF truthy(lower(row.brand)) /\ contains(lower(row.brand), text) THEN 5 ELSE 0)
        + 2 * Cardinality({ tok \in toks : contains(tok, lower(row.tags)) })

\* s after the brand, tag and title/description signals, unscaled
keyword_points(i, text, toks) ==
    LET row == Catalog[i]
    IN  (IF truthy(lower(row.brand)) /\ contains(lower(row.brand), text) THEN 5 ELSE 0)
        + 2 * Cardinality({ tok \in toks : contains(tok, lower(row.tags)) })
        + Cardinality({ tok \in toks : \/ contains(tok, lower(row.title))
                                       \/ contains(tok, lower(row.description)) })

\* 1.5 * (price / max(mx, 1e-6)), scaled
budget_bonus(i, f) ==
    IF f.price_max = <<>> THEN 0
    ELSE IF f.price_max[1] > 0 THEN 3 * Catalog[i].price
         ELSE 3000000 * Catalog[i].price

\* the scaled score s of row i
keyword_score(i, text, toks, f) ==
    keyword_points(i, text, toks) * score_scale(f) + budget_bonus(i, f)

\* the row is not skipped by a `continue`
keyword_in_bounds(i, f) ==
    /\ ~(f.price_min # <<>> /\ Catalog[i].price < f.price_min[1])
    /\ ~(f.price_max # <<>> /\ Catalog[i].price > f.price_max[1])
    /\ ~(truthy(f.category)
         /\ ~contains(lower(f.category), lower(Catalog[i].category)))

\* Variant of insert_desc that puts an entry before the entries of equal score.
RECURSIVE insert_desc_unstable(_, _)
insert_desc_unstable(sorted, e) ==
    IF sorted = <<>> THEN <<e>>
    ELSE IF Head(sorted)[2] > e[2]
         THEN <<Head(sorted)>> \o insert_desc_unstable(Tail(sorted), e)
         ELSE <<e>> \o sorted

\* list.sort(key=lambda x: x[1], reverse=True): stable, descending
RECURSIVE insert_desc(_, _)
insert_desc(sorted, e) ==
    IF sorted = <<>> THEN <<e>>
    ELSE IF Head(sorted)[2] >= e[2]
         THEN <<Head(sorted)>> \o insert_desc(Tail(sorted), e)
         ELSE <<e>> \o sorted

RECURSIVE sort_desc(_, _)
sort_desc(done, todo) ==
    IF todo = <<>> THEN done
    ELSE sort_desc(insert_desc(done, Head(todo)), Tail(todo))

\* the list `scores` before it is sorted: (idx, s) of every row kept
keyword_scores(utext, f) ==
    LET cand == IF any_filter(f) THEN apply_filters(INDEX_df, f) ELSE INDEX_df
        text == lower(utext)
        toks == token_set(text)
        all == [ n \in 1..Len(cand) |-> <<cand[n], keyword_score(cand[n], text, toks, f)>> ]
    IN  SelectSeq(all, LAMBDA e : keyword_in_bounds(e[1], f) /\ e[2] > 0)

_keyword_fallback(utext, f, k) ==
    LET sorted == sort_desc(<<>>, keyword_scores(utext, f))
        cut == Slice(sorted, k)
    IN  [ n \in 1..Len(cut) |-> cut[n][1] ]

\* no search in progress
SearchIdle ==
    /\ mode = "none" /\ pid = "" /\ query = <<>> /\ search_k = 0 /\ raw = <<>>
    /\ uniq = <<>> /\ selected = <<>> /\ scored = <<>> /\ similar_out = <<>>
    /\ response = << >>

\* no startup in progress, no cache file
BootIdle ==
    /\ catalog_ids = <<>> /\ emb_file = [state |-> "missing", data |-> <<>>]
    /\ ids_file = [state |-> "missing", data |-> <<>>] /\ self_embeddings = <<>>
    /\ loaded = FALSE /\ self_index = <<>> /\ failures = {}

\* no process modelled: nothing published, no query
ConcIdle ==
    /\ INDEX = "None" /\ obj = << >> /\ startup_pos = 0 /\ disk_catalog = ""
    /\ q_pc = << >> /\ q_seen = << >>

\* classify_intent not called
IntentIdle == has_image = FALSE /\ intent = ""

\* no evaluation job started
EvalIdle ==
    /\ _running_evals = << >> /\ eval_tasks = <<>> /\ result_files = {}
    /\ eval_response = << >>

\* no filter extracted or merged, _mmr not called with a diversity of its own
RestIdle ==
    /\ extracted = << >> /\ ui = << >> /\ final_filters = << >> /\ diversity = 0
    /\ mmr_out = <<>>
    /\ EvalIdle

OthersIdle == SearchIdle /\ BootIdle /\ ConcIdle /\ IntentIdle /\ RestIdle

(***************************************************************************)
(* The /chat handler on its TEXT_RECOMMEND branch, one request at a time.  *)
(* search_by_text is an input here: any duplicate-free list of catalog     *)
(* positions (CatalogIndex._search removes repeated positions).            *)
(***************************************************************************)
Texts == { <<"s","o","f","t"," ","T","e","e">>, <<"w","a","r","m"," ","n","i","k","e","!">>,
           <<"z","i","p">> }

TopKs == (0 - MaxNegTopK)..MaxTopK

CandLists ==
    { s \in UNION { [1..n -> Rows] : n \in 0..MaxCand } :
        \A i, j \in 1..Len(s) : i # j => s[i] # s[j] }

\* trace[k] = v
put(t, k, v) == (k :> v) @@ t

\* products = [p for p in products if p.id in allowed_ids]
prune(ps, f) ==
    LET ids == allowed_ids(f)
    IN  SelectSeq(ps, LAMBDA i : Catalog[i].id \in ids)

\* de-duplicate products by id, keeping the first of each
RECURSIVE unique_by_id(_, _)
unique_by_id(ps, seen) ==
    IF ps = <<>> THEN <<>>
    ELSE IF Catalog[Head(ps)].id \in seen
         THEN unique_by_id(Tail(ps), seen)
         ELSE <<Head(ps)>> \o unique_by_id(Tail(ps), seen \cup {Catalog[Head(ps)].id})

Init ==
    /\ pc = "search"
    /\ user_text \in Texts
    /\ filters \in FilterSpecs
    /\ top_k \in TopKs
    /\ cand_idxs = <<>>
    /\ chosen = <<>>
    /\ stage1 = <<>>
    /\ staged = <<>>
    /\ ran = {}
    /\ trace = ("intent" :> "TEXT_RECOMMEND")
    /\ fallback_idxs = <<>>
    /\ products = <<>>
    /\ frame = <<>>
    /\ out = <<>>
    /\ out2 = <<>>
    /\ has_image = FALSE /\ intent = "TEXT_RECOMMEND"
    /\ SearchIdle /\ BootIdle /\ ConcIdle /\ RestIdle

\* scored = INDEX.search_by_text(...); cand_idxs = [i for i, _ in scored_list]
Search ==
    /\ pc = "search"
    /\ cand_idxs' \in CandLists
    /\ pc' = "stage1"
    /\ UNCHANGED <<user_text, filters, top_k, chosen, stage1, staged, ran, trace,
                   fallback_idxs, products, frame, out, out2>>
    /\ UNCHANGED otherVars

\* Stage 1: strict filter
Stage1 ==
    /\ pc = "stage1"
    /\ chosen' = add_unique(<<>>, primary_all(cand_idxs, filters), top_k)
    /\ stage1' = chosen'
    /\ trace' = put(trace, "filled_relaxed", Len(chosen') < top_k)
    /\ ran' = ran \cup {"strict"}
    /\ pc' = "stage2"
    /\ UNCHANGED <<user_text, filters, top_k, cand_idxs, staged, fallback_idxs,
                   products, frame, out, out2>>
    /\ UNCHANGED otherVars

\* Stage 2: relax within the same category
Stage2 ==
    /\ pc = "stage2"
    /\ IF Len(chosen) < top_k /\ truthy(filters.category)
       THEN /\ chosen' = add_unique(chosen, cat_pool(cand_idxs, chosen, filters), top_k)
            /\ trace' = IF Len(chosen') > Len(chosen)
                        THEN put(trace, "filled_category_relax", TRUE)
                        ELSE trace
            /\ ran' = ran \cup {"category_relax"}
       ELSE UNCHANGED <<chosen, trace, ran>>
    /\ pc' = "stage3"
    /\ UNCHANGED <<user_text, filters, top_k, cand_idxs, stage1, staged,
                   fallback_idxs, products, frame, out, out2>>
    /\ UNCHANGED otherVars

\* Stage 3: fill with any candidate within price and brand
Stage3 ==
    /\ pc = "stage3"
    /\ IF Len(chosen) < top_k /\ ~truthy(filters.category)
       THEN /\ chosen' = add_unique(chosen, fill_pool(cand_idxs, chosen, filters), top_k)
            /\ trace' = IF Len(chosen') > Len(chosen)
                        THEN put(trace, "filled_any_relax", TRUE)
                        ELSE trace
            /\ ran' = ran \cup {"any_relax"}
       ELSE UNCHANGED <<chosen, trace, ran>>
    /\ staged' = chosen'
    /\ pc' = "min_unique"
    /\ UNCHANGED <<user_text, filters, top_k, cand_idxs, stage1, fallback_idxs,
                   products, frame, out, out2>>
    /\ UNCHANGED otherVars

\* Ensure at least two unique suggestions if available; return chosen
MinUnique ==
    /\ pc = "min_unique"
    /\ IF Len(chosen) < min_unique /\ Len(cand_idxs) >= min_unique
       THEN /\ chosen' = min_unique_rebuild(cand_idxs, top_k)
            /\ ran' = ran \cup {"min_unique"}
       ELSE UNCHANGED <<chosen, ran>>
    /\ pc' = "respond"
    /\ UNCHANGED <<user_text, filters, top_k, cand_idxs, stage1, staged, trace,
                   fallback_idxs, products, frame, out, out2>>
    /\ UNCHANGED otherVars

\* Variant of needs_fallback that asks for the fallback after every pipeline result.
needs_fallback_always(ch) == TRUE

\* `if not products` after the pipeline returned
needs_fallback(ch) == ch = <<>>

\* products = _keyword_fallback(...) replaces an empty pipeline result when it
\* is itself non-empty
fallback_used(ch, fb) == ch = <<>> /\ fb # <<>>

picked(ch, fb) == IF fallback_used(ch, fb) THEN fb ELSE ch

\* final pruning, run only when some filter is set
post_filter(ps, f) == IF any_filter(f) THEN prune(ps, f) ELSE ps

\* the trace keys written after the pipeline returned
respond_trace(t, ch, fb, f, k, returned) ==
    LET p1 == picked(ch, fb)
        pruned == Len(p1) - Len(post_filter(p1, f))
        t1 == IF fallback_used(ch, fb) THEN put(t, "fallback", "keyword") ELSE t
        t2 == IF any_filter(f) /\ pruned > 0
              THEN put(t1, "post_filter_pruned", pruned)
              ELSE t1
    IN  put(put(t2, "requested_top_k", k), "returned", returned)

\* the rest of the TEXT_RECOMMEND branch: keyword fallback when the pipeline
\* returned nothing, final pruning, de-duplication by id, trace counters
Respond ==
    /\ pc = "respond"
    /\ intent = "TEXT_RECOMMEND"
    /\ fallback_idxs' = IF needs_fallback(chosen)
                        THEN _keyword_fallback(user_text, filters, top_k)
                        ELSE <<>>
    /\ ran' = IF needs_fallback(chosen) THEN ran \cup {"fallback"} ELSE ran
    /\ products' = unique_by_id(post_filter(picked(chosen, fallback_idxs'), filters), {})
    /\ trace' = respond_trace(trace, chosen, fallback_idxs', filters, top_k, Len(products'))
    /\ pc' = "done"
    /\ UNCHANGED <<user_text, filters, top_k, cand_idxs, chosen, stage1, staged,
                   frame, out, out2>>
    /\ UNCHANGED otherVars

Next == Search \/ Stage1 \/ Stage2 \/ Stage3 \/ MinUnique \/ Respond

Spec == Init /\ [][Next]_vars

(***************************************************************************)
(* apply_filters on its own: any sub-frame of the catalog, any FilterSpec, *)
(* the filter applied and then applied again to its own output.            *)
(***************************************************************************)
Frames ==
    { s \in UNION { [1..n -> Rows] : n \in 0..Len(Catalog) } :
        \A i, j \in 1..Len(s) : i < j => s[i] < s[j] }

InitFilters ==
    /\ pc = "apply"
    /\ frame \in Frames
    /\ filters \in MoreFilterSpecs
    /\ out = <<>>
    /\ out2 = <<>>
    /\ user_text = <<>>
    /\ top_k = 0
    /\ cand_idxs = <<>>
    /\ chosen = <<>>
    /\ stage1 = <<>>
    /\ staged = <<>>
    /\ ran = {}
    /\ trace = << >>
    /\ fallback_idxs = <<>>
    /\ products = <<>>
    /\ OthersIdle

Apply ==
    /\ pc = "apply"
    /\ out' = apply_filters(frame, filters)
    /\ pc' = "again"
    /\ UNCHANGED <<user_text, filters, top_k, cand_idxs, chosen, stage1, staged, ran,
                   trace, fallback_idxs, products, frame, out2>>
    /\ UNCHANGED otherVars

ApplyAgain ==
    /\ pc = "again"
    /\ out2' = apply_filters(out, filters)
    /\ pc' = "applied"
    /\ UNCHANGED <<user_text, filters, top_k, cand_idxs, chosen, stage1, staged, ran,
                   trace, fallback_idxs, products, frame, out>>
    /\ UNCHANGED otherVars

NextFilters == Apply \/ ApplyAgain

SpecFilters == InitFilters /\ [][NextFilters]_vars

(***************************************************************************)
(* agent/tools.py CatalogIndex: _raw_search, _search, _mmr and             *)
(* search_similar_to_id.  Vectors are integer vectors of length 5 (unit    *)
(* vectors times 5), so an inner product is 25 times the cosine; an MMR    *)
(* score is kept exact in units of 1/250 and an adjusted score in units of *)
(* 1/(2500*mx), mx the price_max of the call when positive, otherwise 1.   *)
(***************************************************************************)
\* self.embeddings, one row per catalog row; rows a and d embed alike
Embeddings == << <<5, 0>>, <<4, 3>>, <<0, 5>>, <<5, 0>> >>

\* query vectors produced by the encoder
Queries == { <<5, 0>>, <<3, 4>>, <<0, 5>>, <<-4, -3>> }

\* u @ v
dot(u, v) == u[1] * v[1] + u[2] * v[2]

\* the marker the index returns in place of a missing neighbour, and its score
NoNeighbour == -1
NoNeighbourScore == -1000000

raw_score(q, i) == IF i = NoNeighbour THEN NoNeighbourScore ELSE dot(q, Embeddings[i])

\* self.index.search(query, fetch_k): neighbours by non-increasing score, the
\* markers last; the caller de-duplicates, so an index may come back twice
RawResults(q) ==
    { [ n \in 1..Len(s) |-> <<s[n], raw_score(q, s[n])>> ] :
        s \in { t \in UNION { [1..n -> Rows \cup {NoNeighbour}] : n \in 0..MaxRaw } :
                  \A n \in 1..(Len(t) - 1) : raw_score(q, t[n]) >= raw_score(q, t[n + 1]) } }

\* RawResults of every query vector a search can be made with
RawResultsOf == [ q \in Queries \cup Range(Embeddings) |-> RawResults(q) ]

\* mask = cand_idxs != -1
mask_valid(r) == SelectSeq(r, LAMBDA e : e[1] # NoNeighbour)

\* Variant of dedup_first that keeps every occurrence.
dedup_keep_all(r, seen) == r

\* the loop over zip(cand_idxs, cand_scores) with the `seen` set
RECURSIVE dedup_first(_, _)
dedup_first(r, seen) ==
    IF r = <<>> THEN <<>>
    ELSE IF Head(r)[1] \in seen
         THEN dedup_first(Tail(r), seen)
         ELSE <<Head(r)>> \o dedup_first(Tail(r), seen \cup {Head(r)[1]})

\* np.argmax: the first position of the largest value
argmax(vals) ==
    CHOOSE j \in 1..Len(vals) :
        /\ \A m \in 1..Len(vals) : vals[m] <= vals[j]
        /\ \A m \in 1..(j - 1) : vals[m] < vals[j]

\* Variant of argmax that takes the last position of the largest value.
argmax_last(vals) ==
    CHOOSE j \in 1..Len(vals) :
        /\ \A m \in 1..Len(vals) : vals[m] <= vals[j]
        /\ \A m \in (j + 1)..Len(vals) : vals[m] < vals[j]

\* sim_items = item_vecs @ item_vecs.T, by candidate position
sim_items(cands, j, m) == dot(Embeddings[cands[j][1]], Embeddings[cands[m][1]])

\* sim_items[:, sel_mask].max(axis=1)
penalty(cands, sel, j) ==
    LET sims == { sim_items(cands, j, sel[n]) : n \in 1..Len(sel) }
    IN  CHOOSE x \in sims : \A y \in sims : y <= x

\* mmr_score[selected] = -1e9
MmrMasked == -1000000000

\* Variant of mmr_score that does not mask the selected positions.
mmr_score_unmasked(cands, sel) ==
    [ j \in 1..Len(cands) |-> 3 * cands[j][2] - 7 * penalty(cands, sel, j) ]

\* diversity * sim_to_query - (1 - diversity) * penalty, diversity = 0.3
mmr_score(cands, sel) ==
    [ j \in 1..Len(cands) |->
        IF \E n \in 1..Len(sel) : sel[n] = j
        THEN MmrMasked
        ELSE 3 * cands[j][2] - 7 * penalty(cands, sel, j) ]

\* the position j appended by one iteration of the while loop
mmr_pick(cands, sel) ==
    IF sel = <<>>
    THEN argmax([ j \in 1..Len(cands) |-> cands[j][2] ])
    ELSE argmax(mmr_score(cands, sel))

\* min(top_k, len(cand_idxs))
mmr_target(cands, k) == IF k < Len(cands) THEN k ELSE Len(cands)

\* [int(cand_idxs[j]) for j in selected]
pick_idxs(cands, sel) == [ n \in 1..Len(sel) |-> cands[sel[n]][1] ]

\* the scale of the adjusted scores of one call
boost_scale(f) == IF f.price_max # <<>> /\ f.price_max[1] > 0 THEN f.price_max[1] ELSE 1

\* Variant of adjusted_score that gives the budget bonus above the ceiling too.
adjusted_score_any_price(q, i, f) ==
    LET row == Catalog[i]
        mxs == boost_scale(f)
    IN  100 * mxs * dot(q, Embeddings[i])
        + (IF truthy(f.brand) /\ lower(row.brand) = lower(f.brand) THEN 125 * mxs ELSE 0)
        + (IF truthy(f.category) /\ contains(lower(f.category), lower(row.category))
           THEN 75 * mxs ELSE 0)
        + (IF truthy(f.tags_contains) /\ contains(lower(f.tags_contains), lower(row.tags))
           THEN 50 * mxs ELSE 0)
        + (IF f.price_max # <<>>
           THEN (IF f.price_max[1] > 0 THEN 75 * row.price ELSE 75000000 * row.price)
           ELSE 0)

\* score after the boosts for structured matches, scaled
adjusted_score(q, i, f) ==
    LET row == Catalog[i]
        mxs == boost_scale(f)
    IN  100 * mxs * dot(q, Embeddings[i])
        + (IF truthy(f.brand) /\ lower(row.brand) = lower(f.brand) THEN 125 * mxs ELSE 0)
        + (IF truthy(f.category) /\ contains(lower(f.category), lower(row.category))
           THEN 75 * mxs ELSE 0)
        + (IF truthy(f.tags_contains) /\ contains(lower(f.tags_contains), lower(row.tags))
           THEN 50 * mxs ELSE 0)
        + (IF f.price_max # <<>> /\ row.price <= f.price_max[1]
           THEN (IF f.price_max[1] > 0 THEN 75 * row.price ELSE 75000000 * row.price)
           ELSE 0)

\* out after the boost loop, out.sort(...) and out[:top_k]
rank_picks(q, picks, f, k) ==
    Slice(sort_desc(<<>>, [ n \in 1..Len(picks) |->
                              <<picks[n], adjusted_score(q, picks[n], f)>> ]), k)

\* the ids a similar-items lookup is asked for: the catalog's and an unknown one
Pids == { Catalog[i].id : i \in Rows } \cup { "zz" }

\* the filters handed to a text search
SearchFilters ==
    { NoFilters,
      [NoFilters EXCEPT !.brand = <<"N","i","k","e">>],
      [NoFilters EXCEPT !.category = <<"t","-","s","h","i","r","t">>, !.price_max = <<30>>],
      [NoFilters EXCEPT !.tags_contains = <<"A","T","H","L","E","T","I","C">>] }

\* self.df[self.df['id'].astype(str) == str(pid)]
rows_with_id(p) == { i \in Rows : Catalog[i].id = p }

\* int(row.index[0])
base_idx(p) == CHOOSE i \in rows_with_id(p) : \A j \in rows_with_id(p) : i <= j

\* Variant of drop_self that keeps the looked-up entry.
drop_self_keeps(sc, p) == sc

\* [(i, s) for i, s in scored if self.df.iloc[i]['id'] != pid]
drop_self(sc, p) == SelectSeq(sc, LAMBDA e : Catalog[e[1]].id # p)

\* no chat request and no apply_filters call in progress
ChatIdle ==
    /\ user_text = <<>> /\ cand_idxs = <<>> /\ chosen = <<>> /\ stage1 = <<>>
    /\ staged = <<>> /\ ran = {} /\ trace = << >> /\ fallback_idxs = <<>>
    /\ products = <<>> /\ frame = <<>> /\ out = <<>> /\ out2 = <<>>

chatVars == <<user_text, cand_idxs, chosen, stage1, staged, ran, trace, fallback_idxs,
              products, frame, out, out2>>

\* what a search leaves alone
notSearchVars == <<chatVars, bootVars, concVars, intentVars, restVars>>

InitSearch ==
    /\ pc = "entry"
    /\ mode \in {"text", "similar"}
    /\ top_k \in TopKs
    /\ IF mode = "text"
       THEN query \in Queries /\ filters \in SearchFilters /\ pid = ""
       ELSE query = <<>> /\ filters = NoFilters /\ pid \in Pids
    /\ search_k = 0 /\ raw = <<>> /\ uniq = <<>> /\ selected = <<>>
    /\ scored = <<>> /\ similar_out = <<>>
    /\ response = << >>
    /\ ChatIdle
    /\ BootIdle
    /\ ConcIdle
    /\ IntentIdle
    /\ RestIdle

\* search_by_text: return self._search(q, top_k=top_k, filters=filters)
SearchByText ==
    /\ pc = "entry" /\ mode = "text"
    /\ search_k' = top_k
    /\ pc' = "raw"
    /\ UNCHANGED <<mode, pid, query, raw, uniq, selected, scored, similar_out,
                   filters, top_k, response, notSearchVars>>

\* search_similar_to_id up to the call of _search
SimilarLookup ==
    /\ pc = "entry" /\ mode = "similar"
    /\ IF rows_with_id(pid) = {}
       THEN /\ similar_out' = <<>>
            /\ pc' = "similar_done"
            /\ UNCHANGED <<query, search_k>>
       ELSE /\ query' = Embeddings[base_idx(pid)]
            /\ search_k' = top_k + 1
            /\ pc' = "raw"
            /\ UNCHANGED similar_out
    /\ UNCHANGED <<mode, pid, raw, uniq, selected, scored, filters, top_k, response, notSearchVars>>

\* cand_scores, cand_idxs = self._raw_search(query_emb, fetch_k)
RawSearch ==
    /\ pc = "raw"
    /\ raw' \in RawResultsOf[query]
    /\ pc' = "dedup"
    /\ UNCHANGED <<mode, pid, query, search_k, uniq, selected, scored, similar_out,
                   filters, top_k, response, notSearchVars>>

\* remove the markers, de-duplicate; an empty list is returned at once
Dedup ==
    /\ pc = "dedup"
    /\ uniq' = dedup_first(mask_valid(raw), {})
    /\ IF uniq' = <<>>
       THEN scored' = <<>> /\ pc' = "searched"
       ELSE scored' = scored /\ pc' = "mmr"
    /\ UNCHANGED <<mode, pid, query, search_k, raw, selected, similar_out,
                   filters, top_k, response, notSearchVars>>

\* one iteration of the while loop of _mmr
MmrStep ==
    /\ pc = "mmr"
    /\ Len(selected) < mmr_target(uniq, search_k)
    /\ selected' = Append(selected, mmr_pick(uniq, selected))
    /\ UNCHANGED <<pc, mode, pid, query, search_k, raw, uniq, scored, similar_out,
                   filters, top_k, response, notSearchVars>>

\* _mmr returns; the boosts, the sort and the slice of _search
Rank ==
    /\ pc = "mmr"
    /\ ~(Len(selected) < mmr_target(uniq, search_k))
    /\ scored' = rank_picks(query, pick_idxs(uniq, selected), filters, search_k)
    /\ pc' = "searched"
    /\ UNCHANGED <<mode, pid, query, search_k, raw, uniq, selected, similar_out,
                   filters, top_k, response, notSearchVars>>

\* _search has returned: to the caller of search_by_text, or to
\* search_similar_to_id, which drops the entry itself and truncates
SearchReturn ==
    /\ pc = "searched"
    /\ IF mode = "similar"
       THEN /\ similar_out' = Slice(drop_self(scored, pid), top_k)
            /\ pc' = "similar_done"
       ELSE /\ similar_out' = similar_out
            /\ pc' = "search_done"
    /\ UNCHANGED <<mode, pid, query, search_k, raw, uniq, selected, scored,
                   filters, top_k, response, notSearchVars>>

\* app.py similar: the products of the scored entries, returned with status 200
SimilarRespond ==
    /\ pc = "similar_done"
    /\ response' = [status |-> 200,
                    products |-> [ n \in 1..Len(similar_out) |-> similar_out[n][1] ]]
    /\ pc' = "responded"
    /\ UNCHANGED <<mode, pid, query, search_k, raw, uniq, selected, scored, similar_out,
                   filters, top_k, notSearchVars>>

NextSearch ==
    \/ SearchByText \/ SimilarLookup \/ RawSearch \/ Dedup \/ MmrStep \/ Rank
    \/ SearchReturn \/ SimilarRespond

SpecSearch == InitSearch /\ [][NextSearch]_vars

\* _search called for a text query without filters, every step of the call
\* taken in the end: nothing in _search waits for another process
InitMmr == InitSearch /\ mode = "text" /\ filters = NoFilters

NextMmr == SearchByText \/ RawSearch \/ Dedup \/ MmrStep \/ Rank \/ SearchReturn

SpecMmr == InitMmr /\ [][NextMmr]_vars /\ WF_vars(NextMmr)

(***************************************************************************)
(* agent/tools.py CatalogIndex.__init__, lines 119-151: the embedding      *)
(* cache across process startups.  The two cache files outlive a process;  *)
(* a file is missing, unreadable, or holds what a startup wrote.  The      *)
(* vector computed for an entry stands for its content: encode_row(id).    *)
(***************************************************************************)
CatalogIdPool == {"a", "b", "c"}

MaxCatalogLen == 2

\* the catalogs a startup may find: non-empty lists of distinct ids
CatalogIdLists ==
    { s \in UNION { [1..n -> CatalogIdPool] : n \in 1..MaxCatalogLen } :
        \A i, j \in 1..Len(s) : i # j => s[i] # s[j] }

\* self.encoder.encode_text([_compose_text(row)]) of the entry with this id
encode_row(id) == <<"emb", id>>

\* self.encoder.encode_text(corpus)
encode_catalog(ids) == [ i \in 1..Len(ids) |-> encode_row(ids[i]) ]

MissingFile == [state |-> "missing", data |-> <<>>]
UnreadableFile == [state |-> "unreadable", data |-> <<>>]
written(data) == [state |-> "ok", data |-> data]

\* os.path.isfile(emb_path) and os.path.isfile(ids_path)
both_files_exist == emb_file.state # "missing" /\ ids_file.state # "missing"

\* json.load / np.load raise
load_raises == both_files_exist /\ (emb_file.state = "unreadable" \/ ids_file.state = "unreadable")

\* Variant of cache_hit that does not compare the number of rows of the matrix.
cache_hit_ids_only ==
    /\ both_files_exist /\ ~load_raises
    /\ Len(ids_file.data) = Len(catalog_ids)
    /\ catalog_ids = ids_file.data

\* Variant of cache_hit that compares the lengths only.
cache_hit_lengths_only ==
    /\ both_files_exist /\ ~load_raises
    /\ Len(ids_file.data) = Len(catalog_ids)
    /\ Len(emb_file.data) = Len(catalog_ids)

\* the conditions under which loaded = True
cache_hit ==
    /\ both_files_exist /\ ~load_raises
    /\ Len(ids_file.data) = Len(catalog_ids)
    /\ Len(emb_file.data) = Len(catalog_ids)
    /\ catalog_ids = ids_file.data

\* the outcomes of writing a file: written, failed before the file was touched,
\* failed with the file half written
WriteOutcomes == {"ok", "untouched", "partial"}

\* Variant of after_persist_failure in which the exception leaves __init__.
after_persist_failure_raises == "failed"

\* where __init__ continues after an exception of np.save / json.dump
\* (except Exception: pass)
after_persist_failure == "index"

InitBoot ==
    /\ pc = "start"
    /\ catalog_ids \in CatalogIdLists
    /\ emb_file = MissingFile
    /\ ids_file = MissingFile
    /\ self_embeddings = <<>>
    /\ loaded = FALSE
    /\ self_index = <<>>
    /\ failures = {}
    /\ filters = NoFilters /\ top_k = 0
    /\ ChatIdle
    /\ SearchIdle
    /\ ConcIdle
    /\ IntentIdle
    /\ RestIdle

notBootVars == <<filters, top_k, chatVars, searchVars, concVars, intentVars, restVars>>

\* Try to load cached embeddings if they match this catalog
LoadCache ==
    /\ pc = "start"
    /\ loaded' = cache_hit
    /\ self_embeddings' = IF cache_hit THEN emb_file.data ELSE self_embeddings
    /\ failures' = IF load_raises THEN failures \cup {"load"} ELSE failures
    /\ pc' = IF cache_hit THEN "index" ELSE "compute"
    /\ UNCHANGED <<catalog_ids, emb_file, ids_file, self_index, notBootVars>>

\* if not loaded: compute the embeddings from scratch
Compute ==
    /\ pc = "compute"
    /\ self_embeddings' = encode_catalog(catalog_ids)
    /\ pc' = "save_emb"
    /\ UNCHANGED <<catalog_ids, emb_file, ids_file, loaded, self_index, failures,
                   notBootVars>>

\* np.save(emb_path, self.embeddings)
SaveEmbeddings ==
    /\ pc = "save_emb"
    /\ \E o \in WriteOutcomes :
        /\ emb_file' = CASE o = "ok" -> written(self_embeddings)
                         [] o = "untouched" -> emb_file
                         [] o = "partial" -> UnreadableFile
        /\ failures' = IF o = "ok" THEN failures ELSE failures \cup {"save_emb"}
        /\ pc' = IF o = "ok" THEN "save_ids" ELSE after_persist_failure
    /\ UNCHANGED <<catalog_ids, ids_file, self_embeddings, loaded, self_index,
                   notBootVars>>

\* with open(ids_path, "w") as f: json.dump(list(self.df["id"]), f)
SaveIds ==
    /\ pc = "save_ids"
    /\ \E o \in WriteOutcomes :
        /\ ids_file' = CASE o = "ok" -> written(catalog_ids)
                         [] o = "untouched" -> ids_file
                         [] o = "partial" -> UnreadableFile
        /\ failures' = IF o = "ok" THEN failures ELSE failures \cup {"save_ids"}
        /\ pc' = IF o = "ok" THEN "index" ELSE after_persist_failure
    /\ UNCHANGED <<catalog_ids, emb_file, self_embeddings, loaded, self_index,
                   notBootVars>>

\* self.index = faiss.IndexFlatIP(...); self.index.add(self.embeddings)
BuildIndex ==
    /\ pc = "index"
    /\ self_index' = self_embeddings
    /\ pc' = "up"
    /\ UNCHANGED <<catalog_ids, emb_file, ids_file, self_embeddings, loaded, failures,
                   notBootVars>>

\* the process ends; the next one starts on a catalog that may have changed
Restart ==
    /\ pc = "up"
    /\ catalog_ids' \in CatalogIdLists
    /\ self_embeddings' = <<>>
    /\ loaded' = FALSE
    /\ self_index' = <<>>
    /\ failures' = {}
    /\ pc' = "start"
    /\ UNCHANGED <<emb_file, ids_file, notBootVars>>

NextBoot == LoadCache \/ Compute \/ SaveEmbeddings \/ SaveIds \/ BuildIndex \/ Restart

SpecBoot == InitBoot /\ [][NextBoot]_vars

(***************************************************************************)
(* app.py startup and the query handlers: one process builds the           *)
(* CatalogIndex and assigns the global INDEX, the queries run beside it in *)
(* any interleaving.  An attribute of the object is "unset" or names the   *)
(* catalog it was built from.                                              *)
(***************************************************************************)
DiskCatalogs == {"catalog_1", "catalog_2"}

Qs == 1..NumQueries

\* Variant of startup_steps that assigns INDEX before the object is built.
startup_steps_publish_first == <<"publish", "df", "embeddings", "index", "id_map">>

\* the order of the writes of startup(): the attributes set by
\* CatalogIndex.__init__, then the assignment INDEX = <the object>
startup_steps == <<"df", "embeddings", "index", "id_map", "publish">>

UnbuiltObject ==
    [df |-> "unset", embeddings |-> "unset", index |-> "unset", id_map |-> "unset"]

NothingSeen == [ref |-> "none", df |-> "none", embeddings |-> "none", index |-> "none"]

InitConc ==
    /\ pc = "serving"
    /\ INDEX = "None"
    /\ obj = UnbuiltObject
    /\ startup_pos = 1
    /\ disk_catalog \in DiskCatalogs
    /\ q_pc = [ q \in Qs |-> "idle" ]
    /\ q_seen = [ q \in Qs |-> NothingSeen ]
    /\ filters = NoFilters /\ top_k = 0
    /\ ChatIdle /\ SearchIdle /\ BootIdle /\ IntentIdle /\ RestIdle

notConcVars == <<pc, filters, top_k, chatVars, searchVars, bootVars, intentVars, restVars>>

\* CatalogIndex.__init__ sets one attribute of the object it builds
Construct ==
    /\ startup_pos \in 1..Len(startup_steps)
    /\ startup_steps[startup_pos] # "publish"
    /\ obj' = [obj EXCEPT ![startup_steps[startup_pos]] = disk_catalog]
    /\ startup_pos' = startup_pos + 1
    /\ UNCHANGED <<INDEX, disk_catalog, q_pc, q_seen, notConcVars>>

\* INDEX = CatalogIndex(CATALOG_PATH): the assignment of the global
Publish ==
    /\ startup_pos \in 1..Len(startup_steps)
    /\ startup_steps[startup_pos] = "publish"
    /\ INDEX' = "object"
    /\ startup_pos' = startup_pos + 1
    /\ UNCHANGED <<obj, disk_catalog, q_pc, q_seen, notConcVars>>

\* the constructor raises: startup() raises RuntimeError, INDEX stays as it is
StartupRaises ==
    /\ startup_pos \in 1..Len(startup_steps)
    /\ startup_steps[startup_pos] # "publish"
    /\ startup_pos' = 0
    /\ UNCHANGED <<INDEX, obj, disk_catalog, q_pc, q_seen, notConcVars>>

\* a handler starts: if INDEX is None: raise HTTPException(status_code=500)
QueryArrives(q) ==
    /\ q_pc[q] = "idle"
    /\ q_pc' = [q_pc EXCEPT ![q] = IF INDEX = "None" THEN "rejected" ELSE "admitted"]
    /\ q_seen' = [q_seen EXCEPT ![q] = [NothingSeen EXCEPT !.ref = INDEX]]
    /\ UNCHANGED <<INDEX, obj, startup_pos, disk_catalog, notConcVars>>

\* scored = INDEX.search_by_text(...): reads self.index and self.embeddings
QuerySearches(q) ==
    /\ q_pc[q] = "admitted"
    /\ INDEX # "None"
    /\ q_pc' = [q_pc EXCEPT ![q] = "searched"]
    /\ q_seen' = [q_seen EXCEPT ![q].embeddings = obj.embeddings, ![q].index = obj.index]
    /\ UNCHANGED <<INDEX, obj, startup_pos, disk_catalog, notConcVars>>

\* products = [Product(**INDEX.df.iloc[i].to_dict()) ...]: reads self.df
QueryBuildsProducts(q) ==
    /\ q_pc[q] = "searched"
    /\ INDEX # "None"
    /\ q_pc' = [q_pc EXCEPT ![q] = "responded"]
    /\ q_seen' = [q_seen EXCEPT ![q].df = obj.df]
    /\ UNCHANGED <<INDEX, obj, startup_pos, disk_catalog, notConcVars>>

\* the response is sent; the worker takes the next request
QueryEnds(q) ==
    /\ q_pc[q] \in {"responded", "rejected"}
    /\ q_pc' = [q_pc EXCEPT ![q] = "idle"]
    /\ q_seen' = [q_seen EXCEPT ![q] = NothingSeen]
    /\ UNCHANGED <<INDEX, obj, startup_pos, disk_catalog, notConcVars>>

NextConc ==
    \/ Construct \/ Publish \/ StartupRaises
    \/ \E q \in Qs : QueryArrives(q)
    \/ \E q \in Qs : QuerySearches(q)
    \/ \E q \in Qs : QueryBuildsProducts(q)
    \/ \E q \in Qs : QueryEnds(q)

SpecConc == InitConc /\ [][NextConc]_vars

(***************************************************************************)
(* agent/router.py classify_intent.                                        *)
(***************************************************************************)
shopping_signals ==
    { <<"r","e","c","o","m","m","e","n","d">>,
      <<"f","i","n","d"," ","m","e">>,
      <<"s","u","g","g","e","s","t">>,
      <<"l","o","o","k","i","n","g"," ","f","o","r">>,
      <<"b","u","y">>,
      <<"s","h","o","w"," ","m","e">>,
      <<"s","e","a","r","c","h"," ","f","o","r">>,
      <<"c","o","m","p","a","r","e">> }

price_signals ==
    { <<"u","n","d","e","r"," ">>,
      <<"$">>,
      <<"l","e","s","s"," ","t","h","a","n">>,
      <<"b","e","t","w","e","e","n">>,
      <<"f","r","o","m"," ">> }

\* any(k in t for k in shopping_signals) or any(p in t for p in price_signals)
has_signal(t) == \E k \in shopping_signals \cup price_signals : contains(k, t)

\* Variant of classify_intent that does not strip the text.
classify_intent_no_strip(text, image) ==
    LET t == lower(text)
    IN  IF image /\ Len(t) > 2 THEN "IMAGE_AND_TEXT"
        ELSE IF image THEN "IMAGE_SEARCH"
        ELSE IF has_signal(t) THEN "TEXT_RECOMMEND"
        ELSE "SMALLTALK"

classify_intent(text, image) ==
    LET t == strip(lower(text))
    IN  IF image /\ Len(t) > 2 THEN "IMAGE_AND_TEXT"
        ELSE IF image THEN "IMAGE_SEARCH"
        ELSE IF has_signal(t) THEN "TEXT_RECOMMEND"
        ELSE "SMALLTALK"

\* the texts classified: a core, after nothing or a blank, before nothing, a
\* blank or another word
IntentCores ==
    { <<>>,
      <<"h","i">>,
      <<"o","k","!">>,
      <<"B","u","y">>,
      <<"u","n","d","e","r">>,
      <<"f","r","o","m">>,
      <<"$">>,
      <<"F","i","n","d"," ","m","e">>,
      <<"C","O","M","P","A","R","E">>,
      <<"l","e","s","s"," ","t","h","a","n">>,
      <<"i"," ","r","e","c","o","m","m","e","n","d">>,
      <<"a">> }

IntentTexts ==
    { p \o c \o x : p \in { <<>>, <<" ">> }, c \in IntentCores,
                      x \in { <<>>, <<" ">>, <<" ","x">> } }

InitIntent ==
    /\ pc = "classify"
    /\ user_text \in IntentTexts
    /\ has_image \in BOOLEAN
    /\ intent = ""
    /\ filters = NoFilters /\ top_k = 0
    /\ cand_idxs = <<>> /\ chosen = <<>> /\ stage1 = <<>> /\ staged = <<>>
    /\ ran = {} /\ trace = << >> /\ fallback_idxs = <<>> /\ products = <<>>
    /\ frame = <<>> /\ out = <<>> /\ out2 = <<>>
    /\ SearchIdle /\ BootIdle /\ ConcIdle /\ RestIdle

\* intent = classify_intent(last_user_text, has_image=bool(req.image_base64))
ClassifyIntent ==
    /\ pc = "classify"
    /\ intent' = classify_intent(user_text, has_image)
    /\ pc' = "classified"
    /\ UNCHANGED <<has_image, filters, top_k, chatVars, searchVars, bootVars, concVars,
                   restVars>>

NextIntent == ClassifyIntent

SpecIntent == InitIntent /\ [][NextIntent]_vars

(***************************************************************************)
(* agent/router.py: the rule-based filter extraction.  The three patterns  *)
(* of _parse_price are matched as re.search matches them: at the leftmost  *)
(* start, alternatives in order, every repetition greedy.  None of the     *)
(* three can succeed after giving back a character, so a match at a start  *)
(* is the one greedy attempt.  float(digits) is the integer the digits     *)
(* spell.                                                                  *)
(***************************************************************************)
BRANDS == <<
    <<"N","i","k","e">>, <<"A","d","i","d","a","s">>,
    <<"U","n","d","e","r"," ","A","r","m","o","u","r">>, <<"P","u","m","a">>,
    <<"R","e","e","b","o","k">>, <<"C","h","a","m","p","i","o","n">>,
    <<"N","e","w"," ","B","a","l","a","n","c","e">>, <<"A","S","I","C","S">>,
    <<"L","u","l","u","l","e","m","o","n">>, <<"P","a","t","a","g","o","n","i","a">>,
    <<"U","n","i","q","l","o">>, <<"H","&","M">>, <<"S","o","n","y">>, <<"B","o","s","e">>,
    <<"A","p","p","l","e">>, <<"B","e","a","t","s">>, <<"C","o","l","u","m","b","i","a">>,
    <<"T","h","e"," ","N","o","r","t","h"," ","F","a","c","e">>,
    <<"A","r","c","t","e","r","y","x">>, <<"S","a","m","s","o","n","i","t","e">>,
    <<"H","e","r","s","c","h","e","l">>, <<"D","e","u","t","e","r">>,
    <<"S","a","l","o","m","o","n">> >>

\* CATEGORY_SYNONYMS: (canonical, keys) in the order of the list
CATEGORY_SYNONYMS == <<
    << <<"t","-","s","h","i","r","t">>,
       << <<"t","-","s","h","i","r","t">>, <<"t","e","e">>, <<"s","h","i","r","t">>, <<"t","s","h","i","r","t">> >> >>,
    << <<"h","o","o","d","i","e">>,
       << <<"h","o","o","d","i","e">>, <<"h","o","o","d","e","d">> >> >>,
    << <<"s","h","o","r","t","s">>,
       << <<"s","h","o","r","t","s">> >> >>,
    << <<"s","n","e","a","k","e","r","s">>,
       << <<"s","n","e","a","k","e","r","s">>, <<"r","u","n","n","i","n","g"," ","s","h","o","e","s">>, <<"t","r","a","i","n","e","r","s">>, <<"s","h","o","e","s">> >> >>,
    << <<"b","a","c","k","p","a","c","k">>,
       << <<"b","a","c","k","p","a","c","k">>, <<"b","a","g">>, <<"d","a","y","p","a","c","k">> >> >>,
    << <<"h","e","a","d","p","h","o","n","e","s">>,
       << <<"h","e","a","d","p","h","o","n","e","s">>, <<"h","e","a","d","s","e","t">>, <<"o","v","e","r","-","e","a","r">>, <<"o","n","-","e","a","r">>, <<"n","o","i","s","e"," ","c","a","n","c","e","l","l","i","n","g">> >> >>,
    << <<"j","a","c","k","e","t">>,
       << <<"j","a","c","k","e","t">>, <<"s","h","e","l","l">>, <<"w","i","n","d","b","r","e","a","k","e","r">>, <<"r","a","i","n"," ","j","a","c","k","e","t">>, <<"c","o","a","t">> >> >>,
    << <<"l","e","g","g","i","n","g","s">>,
       << <<"l","e","g","g","i","n","g","s">>, <<"t","i","g","h","t","s">> >> >>,
    << <<"s","o","c","k","s">>,
       << <<"s","o","c","k","s">> >> >>,
    << <<"c","a","p">>,
       << <<"c","a","p">>, <<"h","a","t">>, <<"b","e","a","n","i","e">> >> >> >>

\* TAG_MAP.items(), in insertion order
TAG_MAP == <<
    << <<"b","r","e","a","t","h","a","b","l","e">>, <<"b","r","e","a","t","h","a","b","l","e">> >>,
    << <<"l","i","g","h","t","w","e","i","g","h","t">>, <<"l","i","g","h","t","w","e","i","g","h","t">> >>,
    << <<"m","e","s","h">>, <<"m","e","s","h">> >>,
    << <<"d","r","y"," ","f","i","t">>, <<"d","r","y","-","f","i","t">> >>,
    << <<"d","r","i"," ","f","i","t">>, <<"d","r","y","-","f","i","t">> >>,
    << <<"d","r","i","-","f","i","t">>, <<"d","r","y","-","f","i","t">> >>,
    << <<"q","u","i","c","k"," ","d","r","y">>, <<"q","u","i","c","k","-","d","r","y">> >>,
    << <<"q","u","i","c","k","-","d","r","y">>, <<"q","u","i","c","k","-","d","r","y">> >>,
    << <<"c","o","t","t","o","n">>, <<"c","o","t","t","o","n">> >>,
    << <<"g","r","a","p","h","i","c">>, <<"g","r","a","p","h","i","c">> >>,
    << <<"c","o","m","p","r","e","s","s","i","o","n">>, <<"c","o","m","p","r","e","s","s","i","o","n">> >>,
    << <<"l","o","n","g"," ","s","l","e","e","v","e">>, <<"l","o","n","g","-","s","l","e","e","v","e">> >>,
    << <<"s","h","o","r","t"," ","s","l","e","e","v","e">>, <<"s","h","o","r","t","-","s","l","e","e","v","e">> >>,
    << <<"a","t","h","l","e","t","i","c">>, <<"a","t","h","l","e","t","i","c">> >>,
    << <<"s","p","o","r","t","s">>, <<"a","t","h","l","e","t","i","c">> >>,
    << <<"w","a","t","e","r","p","r","o","o","f">>, <<"w","a","t","e","r","p","r","o","o","f">> >>,
    << <<"w","i","n","d","p","r","o","o","f">>, <<"w","i","n","d","p","r","o","o","f">> >>,
    << <<"h","i","k","i","n","g">>, <<"h","i","k","i","n","g">> >>,
    << <<"t","r","a","i","l">>, <<"t","r","a","i","l">> >>,
    << <<"l","e","a","t","h","e","r">>, <<"l","e","a","t","h","e","r">> >>,
    << <<"c","a","n","v","a","s">>, <<"c","a","n","v","a","s">> >>,
    << <<"w","i","r","e","l","e","s","s">>, <<"w","i","r","e","l","e","s","s">> >>,
    << <<"n","o","i","s","e"," ","c","a","n","c","e","l","l","i","n","g">>, <<"n","o","i","s","e","-","c","a","n","c","e","l","l","i","n","g">> >>,
    << <<"c","u","s","h","i","o","n","i","n","g">>, <<"c","u","s","h","i","o","n","i","n","g">> >> >>
\* the value float() gives the digits of a digit run
DigitValue ==
    [ c \in DigitChars |->
        CHOOSE v \in 0..9 : <<"0","1","2","3","4","5","6","7","8","9">>[v + 1] = c ]

RECURSIVE to_number(_)
to_number(ds) ==
    IF ds = <<>> THEN 0
    ELSE 10 * to_number(SubSeq(ds, 1, Len(ds) - 1)) + DigitValue[ds[Len(ds)]]

\* \s* from position i: the first position that holds no whitespace
RECURSIVE skip_space(_, _)
skip_space(t, i) == IF i <= Len(t) /\ isspace(t[i]) THEN skip_space(t, i + 1) ELSE i

\* \$? from position i
skip_dollar(t, i) == IF i <= Len(t) /\ t[i] = "$" THEN i + 1 ELSE i

\* \d+ from position i: the last position of the digit run, i - 1 when there is none
RECURSIVE digits_end(_, _)
digits_end(t, i) ==
    IF i <= Len(t) /\ t[i] \in DigitChars THEN digits_end(t, i + 1) ELSE i - 1

\* the literal w at position i
literal_at(t, i, w) == i + Len(w) - 1 <= Len(t) /\ SubSeq(t, i, i + Len(w) - 1) = w

\* an alternation of literals at position i: the first alternative that matches,
\* <<>> when none does
alternative_at(t, i, ws) ==
    LET hits == { n \in 1..Len(ws) : literal_at(t, i, ws[n]) }
    IN  IF hits = {} THEN <<>>
        ELSE <<ws[CHOOSE n \in hits : \A m \in hits : n <= m]>>

\* \s*\$?(\d+) from position i: <<first, last>> of the digits, <<>> without a match
amount_at(t, i) ==
    LET j == skip_dollar(t, skip_space(t, i))
        e == digits_end(t, j)
    IN  IF e >= j THEN <<j, e>> ELSE <<>>

\* (under|less than|below)\s*\$?(\d+) matched at position i: <<group 2>>
ceiling_at(t, i) ==
    LET w == alternative_at(t, i, << <<"u","n","d","e","r">>,
                                     <<"l","e","s","s"," ","t","h","a","n">>,
                                     <<"b","e","l","o","w">> >>)
    IN  IF w = <<>> THEN <<>>
        ELSE LET a == amount_at(t, i + Len(w[1]))
             IN  IF a = <<>> THEN <<>> ELSE <<to_number(SubSeq(t, a[1], a[2]))>>

\* \s*(and|-|to)\s*\$?(\d+) from position i: <<the second number>>
range_tail_at(t, i, seps) ==
    LET k == skip_space(t, i)
        c == alternative_at(t, k, seps)
    IN  IF c = <<>> THEN <<>>
        ELSE LET b == amount_at(t, k + Len(c[1]))
             IN  IF b = <<>> THEN <<>> ELSE <<to_number(SubSeq(t, b[1], b[2]))>>

\* (between|from)\s*\$?(\d+)\s*(and|-|to)\s*\$?(\d+) matched at position i:
\* <<group 2, group 4>>
between_at(t, i) ==
    LET w == alternative_at(t, i, << <<"b","e","t","w","e","e","n">>, <<"f","r","o","m">> >>)
    IN  IF w = <<>> THEN <<>>
        ELSE LET a == amount_at(t, i + Len(w[1]))
             IN  IF a = <<>> THEN <<>>
                 ELSE LET b == range_tail_at(t, a[2] + 1,
                                             << <<"a","n","d">>, <<"-">>, <<"t","o">> >>)
                      IN  IF b = <<>> THEN <<>>
                          ELSE <<to_number(SubSeq(t, a[1], a[2])), b[1]>>

\* \$?(\d+)\s*-\s*\$?(\d+) matched at position i: <<group 1, group 2>>
dash_at(t, i) ==
    LET j == skip_dollar(t, i)
        e == digits_end(t, j)
    IN  IF e < j THEN <<>>
        ELSE LET b == range_tail_at(t, e + 1, << <<"-">> >>)
             IN  IF b = <<>> THEN <<>>
                 ELSE <<to_number(SubSeq(t, j, e)), b[1]>>

\* re.search: of the matches at the positions 1..Len(m), the leftmost
search(m) ==
    LET hits == { i \in 1..Len(m) : m[i] # <<>> }
    IN  IF hits = {} THEN <<>>
        ELSE m[CHOOSE i \in hits : \A j \in hits : i <= j]

Min(a, b) == IF a <= b THEN a ELSE b

\* _parse_price: <<price_min, price_max>>; a later pattern that matches
\* overwrites what an earlier one set
_parse_price(text) ==
    LET t == lower(text)
        m1 == search([i \in 1..Len(t) |-> ceiling_at(t, i)])
        m2 == search([i \in 1..Len(t) |-> between_at(t, i)])
        m3 == search([i \in 1..Len(t) |-> dash_at(t, i)])
    IN  IF m3 # <<>> THEN << <<Min(m3[1], m3[2])>>, <<Max(m3[1], m3[2])>> >>
        ELSE IF m2 # <<>> THEN << <<Min(m2[1], m2[2])>>, <<Max(m2[1], m2[2])>> >>
        ELSE IF m1 # <<>> THEN << <<>>, <<m1[1]>> >>
        ELSE << <<>>, <<>> >>

\* _parse_brand: the first brand of BRANDS whose lower-cased name is in the
\* lower-cased text, <<>> for None
_parse_brand(text) ==
    LET hits == { n \in 1..Len(BRANDS) : contains(lower(BRANDS[n]), lower(text)) }
    IN  IF hits = {} THEN <<>>
        ELSE BRANDS[CHOOSE n \in hits : \A m \in hits : n <= m]

\* the loop over CATEGORY_SYNONYMS, left at the first group with a key in t
parse_category(t) ==
    LET hits == { g \in 1..Len(CATEGORY_SYNONYMS) :
                    \E k \in 1..Len(CATEGORY_SYNONYMS[g][2]) :
                        contains(CATEGORY_SYNONYMS[g][2][k], t) }
    IN  IF hits = {} THEN <<>>
        ELSE CATEGORY_SYNONYMS[CHOOSE g \in hits : \A h \in hits : g <= h][1]

\* the loop over TAG_MAP.items(), left at the first key in t
parse_tag(t) ==
    LET hits == { n \in 1..Len(TAG_MAP) : contains(TAG_MAP[n][1], t) }
    IN  IF hits = {} THEN <<>>
        ELSE TAG_MAP[CHOOSE n \in hits : \A m \in hits : n <= m][2]

extract_filters_rules(text) ==
    LET t == lower(text)
        price == _parse_price(t)
    IN  [brand |-> _parse_brand(text), category |-> parse_category(t),
         price_min |-> price[1], price_max |-> price[2], tags_contains |-> parse_tag(t)]

\* the texts the rules are run on: an optional opening, a brand, a category
\* word, a ceiling "under $N" and an optional ending
RuleOpenings == { <<>>, <<"b","e","l","o","w"," ","9"," ">> }
RuleBrands ==
    { <<"n","i","k","e">>, <<"N","I","K","E">>,
      <<"U","n","d","e","r"," ","A","r","m","o","u","r">>,
      <<"p","u","m","a"," ","o","r"," ","A","d","i","d","a","s">> }
RuleCategories ==
    { <<"t","-","s","h","i","r","t">>, <<"b","r","e","a","t","h","a","b","l","e"," ","T","e","e">>,
      <<"h","o","o","d","e","d"," ","s","h","i","r","t">>, <<"b","a","g">>,
      <<"s","p","o","r","t","s"," ","h","a","t">> }
RuleCeilings == { <<"2","5">>, <<"5">>, <<"1","0","0">> }
RuleEndings ==
    { <<>>, <<" ","s","i","z","e"," ","1","0","-","1","2">>,
      <<" ","f","r","o","m"," ","4","0"," ","t","o"," ","2","0">>,
      <<" ","b","e","t","w","e","e","n"," ","$","5"," ","a","n","d"," ","$","7">> }

RuleTexts ==
    { o \o b \o <<" ">> \o c \o <<" ","u","n","d","e","r"," ","$">> \o n \o e :
        o \in RuleOpenings, b \in RuleBrands, c \in RuleCategories,
        n \in RuleCeilings, e \in RuleEndings }

InitRules ==
    /\ pc = "rules"
    /\ user_text \in RuleTexts
    /\ extracted = << >> /\ ui = << >> /\ final_filters = << >> /\ diversity = 0
    /\ mmr_out = <<>>
    /\ filters = NoFilters /\ top_k = 0
    /\ cand_idxs = <<>> /\ chosen = <<>> /\ stage1 = <<>> /\ staged = <<>>
    /\ ran = {} /\ trace = << >> /\ fallback_idxs = <<>> /\ products = <<>>
    /\ frame = <<>> /\ out = <<>> /\ out2 = <<>>
    /\ SearchIdle /\ BootIdle /\ ConcIdle /\ IntentIdle /\ EvalIdle

\* extracted = extract_filters_llm_or_rules(last_user_text)
ExtractFilters ==
    /\ pc = "rules"
    /\ extracted' = extract_filters_rules(user_text)
    /\ pc' = "extracted"
    /\ UNCHANGED <<ui, final_filters, diversity, mmr_out, filters, top_k, chatVars,
                   searchVars, bootVars, concVars, intentVars, evalVars>>

NextRules == ExtractFilters

SpecRules == InitRules /\ [][NextRules]_vars

(***************************************************************************)
(* The TEXT_RECOMMEND branch of /chat against a catalog with more rows     *)
(* than the 100 entries its search asks for.  The rows are the four rows   *)
(* of Catalog stocked under many ids: WideBase gives, for a position of    *)
(* the wide catalog, the row whose text, price and embedding it has.  Row  *)
(* a is stocked many times; rows d (the one entry at 20 or less, embedded  *)
(* like a), b and c are stocked once, at the end.  What the code computes  *)
(* from the content of a row is computed by the operators above on the     *)
(* row's WideBase.                                                         *)
(***************************************************************************)
WideCatalogLen == 101

WideRows == 1..WideCatalogLen

WideBase ==
    [ i \in WideRows |-> IF i = WideCatalogLen THEN 3
                         ELSE IF i = WideCatalogLen - 1 THEN 2
                         ELSE IF i = WideCatalogLen - 2 THEN 4 ELSE 1 ]

\* top_k = max(2, min(requested_k, 24))
clamp_top_k(requested_k) == Max(2, Min(requested_k, 24))

\* top_k=max(top_k * 10, 100) of the call of search_by_text
text_search_k(requested_k) == Max(clamp_top_k(requested_k) * 10, 100)

\* fetch_k = max(top_k * 5, 20)
fetch_k(k) == Max(k * 5, 20)

\* a stable descending sort by the second component, for long lists: the
\* entry at position n goes behind the entries of greater score and the
\* entries of equal score that stand before it
sorted_desc(l) ==
    LET RankOf == [ n \in 1..Len(l) |->
                      1 + Cardinality({ m \in 1..Len(l) :
                                          \/ l[m][2] > l[n][2]
                                          \/ (l[m][2] = l[n][2] /\ m < n) }) ]
    IN  [ r \in 1..Len(l) |-> l[CHOOSE n \in 1..Len(l) : RankOf[n] = r] ]

\* self.index.search(query, fetch_k) on the wide catalog: the rows by
\* non-increasing inner product, equal scores by position, cut at fetch_k (the
\* markers that fill the rest of the window are dropped by the mask and are
\* left out)
wide_raw_search(q, k) ==
    Slice(sorted_desc([ i \in WideRows |-> <<i, dot(q, Embeddings[WideBase[i]])>> ]),
          fetch_k(k))

\* the candidates with the row their vector is taken from: self.embeddings[cand_idxs]
wide_item_vecs(cands) == [ n \in 1..Len(cands) |-> <<WideBase[cands[n][1]], cands[n][2]>> ]

\* out after the boost loop, out.sort(...) and out[:top_k]
wide_rank_picks(q, picks, f, k) ==
    Slice(sorted_desc([ n \in 1..Len(picks) |->
                          <<picks[n], adjusted_score(q, WideBase[picks[n]], f)>> ]), k)

\* df.iloc[i]["id"] in allowed_ids: apply_filters keeps or drops a row by its
\* own content
wide_allowed(i, f) == Catalog[WideBase[i]].id \in allowed_ids(f)

\* the entries of l at the positions of keep, in the order of l
at_positions(l, keep) ==
    [ j \in 1..Cardinality(keep) |->
        l[CHOOSE n \in keep : Cardinality({ m \in keep : m <= n }) = j] ]

\* the loop over zip(cand_idxs, cand_scores) with the `seen` set, for long
\* lists: an entry is kept when no entry before it has its index
wide_dedup_first(r) ==
    at_positions(r, { n \in 1..Len(r) : \A m \in 1..(n - 1) : r[m][1] # r[n][1] })

\* add_unique for long pools.  The loop appends a pool entry when its key is
\* not the key of a seed entry or of an earlier pool entry, and stops once
\* top_k entries are out: it appends the first top_k - len(seed) of the
\* entries that are the first of a key the seed does not hold.
wide_add_unique(seed, pool, k) ==
    LET seed_keys == { key(WideBase[i]) : i \in Range(seed) }
        fresh == { n \in 1..Len(pool) :
                     /\ key(WideBase[pool[n]]) \notin seed_keys
                     /\ \A m \in 1..(n - 1) :
                           key(WideBase[pool[m]]) # key(WideBase[pool[n]]) }
        taken == { n \in fresh : Len(seed) + Cardinality({ m \in fresh : m < n }) < k }
    IN  seed \o at_positions(pool, taken)

wide_primary_all(cands, f) == SelectSeq(cands, LAMBDA i : wide_allowed(i, f))

wide_cat_pool(cands, sofar, f) ==
    SelectSeq(cands, LAMBDA i : /\ i \notin Range(sofar)
                                /\ contains(lower(f.category),
                                            lower(Catalog[WideBase[i]].category))
                                /\ within_price_brand(WideBase[i], f))

wide_fill_pool(cands, sofar, f) ==
    SelectSeq(cands, LAMBDA i : i \notin Range(sofar) /\ within_price_brand(WideBase[i], f))

\* chosen after stage 2
wide_stage2(cands, s1, f, k) ==
    IF Len(s1) < k /\ truthy(f.category)
    THEN wide_add_unique(s1, wide_cat_pool(cands, s1, f), k)
    ELSE s1

\* chosen after stage 3
wide_stage3(cands, s2, f, k) ==
    IF Len(s2) < k /\ ~truthy(f.category)
    THEN wide_add_unique(s2, wide_fill_pool(cands, s2, f), k)
    ELSE s2

\* the list returned: the staged one or the one rebuilt by the minimum-unique branch
wide_min_unique(cands, s3, k) ==
    IF Len(s3) < min_unique /\ Len(cands) >= min_unique
    THEN Slice(wide_add_unique(<<>>, cands, k), Max(min_unique, k))
    ELSE s3

\* _pick_with_filters on wide positions
wide_pick_with_filters(cands, f, k) ==
    wide_min_unique(cands,
        wide_stage3(cands,
            wide_stage2(cands, wide_add_unique(<<>>, wide_primary_all(cands, f), k), f, k),
            f, k),
        k)

\* _keyword_fallback over the wide catalog
wide_keyword_fallback(utext, f, k) ==
    LET text == lower(utext)
        toks == token_set(text)
        ScoreOf == [ b \in Rows |-> keyword_score(b, text, toks, f) ]
        cand == SelectSeq([ i \in WideRows |-> i ],
                          LAMBDA i : any_filter(f) => wide_allowed(i, f))
        all == [ n \in 1..Len(cand) |-> <<cand[n], ScoreOf[WideBase[cand[n]]]>> ]
        kept == SelectSeq(all, LAMBDA e : keyword_in_bounds(WideBase[e[1]], f) /\ e[2] > 0)
        cut == Slice(sorted_desc(kept), k)
    IN  [ n \in 1..Len(cut) |-> cut[n][1] ]

\* final pruning, run only when some filter is set
wide_post_filter(ps, f) ==
    IF any_filter(f) THEN SelectSeq(ps, LAMBDA i : wide_allowed(i, f)) ELSE ps

WideQueries == { <<5, 0>>, <<3, 4>> }

WideFilters ==
    { NoFilters,
      [NoFilters EXCEPT !.category = <<"h","o","o","d","i","e">>],
      [NoFilters EXCEPT !.price_max = <<20>>] }

WideTopKs == { 1, MaxTopK }

wideUnused == <<stage1, staged, ran, frame, out, out2, mode, pid, similar_out, response,
                bootVars, concVars, intentVars, restVars>>

InitWide ==
    /\ pc = "wide_search"
    /\ user_text = <<"z","i","p">>
    /\ query \in WideQueries
    /\ filters \in WideFilters
    /\ top_k \in WideTopKs
    /\ search_k = 0 /\ raw = <<>> /\ uniq = <<>> /\ selected = <<>> /\ scored = <<>>
    /\ cand_idxs = <<>> /\ chosen = <<>> /\ fallback_idxs = <<>> /\ products = <<>>
    /\ trace = ("intent" :> "TEXT_RECOMMEND")
    /\ stage1 = <<>> /\ staged = <<>> /\ ran = {} /\ frame = <<>> /\ out = <<>>
    /\ out2 = <<>> /\ mode = "none" /\ pid = "" /\ similar_out = <<>> /\ response = << >>
    /\ BootIdle /\ ConcIdle /\ IntentIdle /\ RestIdle

\* INDEX.search_by_text(last_user_text, top_k=max(top_k * 10, 100), filters=filters)
\* up to the return of _raw_search
WideRawSearch ==
    /\ pc = "wide_search"
    /\ search_k' = text_search_k(top_k)
    /\ raw' = wide_raw_search(query, search_k')
    /\ pc' = "wide_dedup"
    /\ UNCHANGED <<user_text, query, filters, top_k, uniq, selected, scored, cand_idxs,
                   chosen, fallback_idxs, products, trace, wideUnused>>

\* the mask and the de-duplication of _search
WideDedup ==
    /\ pc = "wide_dedup"
    /\ uniq' = wide_dedup_first(mask_valid(raw))
    /\ pc' = "wide_mmr"
    /\ UNCHANGED <<user_text, query, filters, top_k, search_k, raw, selected, scored,
                   cand_idxs, chosen, fallback_idxs, products, trace, wideUnused>>

\* one iteration of the while loop of _mmr
WideMmrStep ==
    /\ pc = "wide_mmr"
    /\ Len(selected) < mmr_target(uniq, search_k)
    /\ selected' = Append(selected, mmr_pick(wide_item_vecs(uniq), selected))
    /\ UNCHANGED <<pc, user_text, query, filters, top_k, search_k, raw, uniq, scored,
                   cand_idxs, chosen, fallback_idxs, products, trace, wideUnused>>

\* _mmr returns; the boosts, the sort and the slice of _search
WideRank ==
    /\ pc = "wide_mmr"
    /\ ~(Len(selected) < mmr_target(uniq, search_k))
    /\ scored' = wide_rank_picks(query, pick_idxs(uniq, selected), filters, search_k)
    /\ pc' = "wide_pick"
    /\ UNCHANGED <<user_text, query, filters, top_k, search_k, raw, uniq, selected,
                   cand_idxs, chosen, fallback_idxs, products, trace, wideUnused>>

\* chosen = _pick_with_filters(scored, filters, req.top_k)
WidePick ==
    /\ pc = "wide_pick"
    /\ cand_idxs' = [ n \in 1..Len(scored) |-> scored[n][1] ]
    /\ chosen' = wide_pick_with_filters(cand_idxs', filters, top_k)
    /\ pc' = "wide_respond"
    /\ UNCHANGED <<user_text, query, filters, top_k, search_k, raw, uniq, selected,
                   scored, fallback_idxs, products, trace, wideUnused>>

\* the rest of the branch: keyword fallback for an empty list, final pruning,
\* trace counters (ids are unique, so the de-duplication by id keeps every entry)
WideRespond ==
    /\ pc = "wide_respond"
    /\ fallback_idxs' = IF chosen = <<>>
                        THEN wide_keyword_fallback(user_text, filters, top_k)
                        ELSE <<>>
    /\ products' = wide_post_filter(picked(chosen, fallback_idxs'), filters)
    /\ trace' = put(put(IF fallback_used(chosen, fallback_idxs')
                        THEN put(trace, "fallback", "keyword") ELSE trace,
                        "requested_top_k", top_k), "returned", Len(products'))
    /\ pc' = "wide_done"
    /\ UNCHANGED <<user_text, query, filters, top_k, search_k, raw, uniq, selected,
                   scored, cand_idxs, chosen, wideUnused>>

NextWide ==
    WideRawSearch \/ WideDedup \/ WideMmrStep \/ WideRank \/ WidePick \/ WideRespond

SpecWide == InitWide /\ [][NextWide]_vars

(***************************************************************************)
(* agent/tools.py CatalogIndex._mmr called on its own, with a diversity    *)
(* other than the default.  diversity is kept in tenths, so a score is in  *)
(* units of 1/250.                                                         *)
(***************************************************************************)
Diversities == {0, 3, 5, 10}

\* Variant of mmr_score_of that leaves the redundancy penalty out.
mmr_score_of_no_penalty(cands, sel, d) ==
    [ j \in 1..Len(cands) |->
        IF \E n \in 1..Len(sel) : sel[n] = j THEN MmrMasked ELSE d * cands[j][2] ]

\* diversity * sim_to_query - (1 - diversity) * penalty, the selected masked
mmr_score_of(cands, sel, d) ==
    [ j \in 1..Len(cands) |->
        IF \E n \in 1..Len(sel) : sel[n] = j
        THEN MmrMasked
        ELSE d * cands[j][2] - (10 - d) * penalty(cands, sel, j) ]

\* the position j appended by one iteration of the while loop
mmr_pick_of(cands, sel, d) ==
    IF sel = <<>>
    THEN argmax([ j \in 1..Len(cands) |-> cands[j][2] ])
    ELSE argmax(mmr_score_of(cands, sel, d))

\* the candidate lists _search hands to _mmr for a query: what the mask and
\* the de-duplication leave of a raw result, when that is not empty
CandidatesOf ==
    [ q \in Queries |-> { dedup_first(mask_valid(r), {}) : r \in RawResultsOf[q] } \ { <<>> } ]

InitDiversity ==
    /\ pc = "mmr_call"
    /\ query \in Queries
    /\ uniq \in CandidatesOf[query]
    /\ search_k \in 0..(MaxTopK + 1)
    /\ diversity \in Diversities
    /\ selected = <<>> /\ mmr_out = <<>>
    /\ mode = "none" /\ pid = "" /\ raw = <<>> /\ scored = <<>> /\ similar_out = <<>>
    /\ response = << >>
    /\ filters = NoFilters /\ top_k = 0
    /\ extracted = << >> /\ ui = << >> /\ final_filters = << >>
    /\ ChatIdle /\ BootIdle /\ ConcIdle /\ IntentIdle /\ EvalIdle

notDiversityVars == <<mode, pid, query, search_k, raw, uniq, scored, similar_out, response,
                      filters, top_k, diversity, requestVars, chatVars, bootVars, concVars,
                      intentVars, evalVars>>

\* one iteration of the while loop of _mmr
MmrIterate ==
    /\ pc = "mmr_call"
    /\ Len(selected) < mmr_target(uniq, search_k)
    /\ selected' = Append(selected, mmr_pick_of(uniq, selected, diversity))
    /\ UNCHANGED <<pc, mmr_out, notDiversityVars>>

\* return [int(cand_idxs[j]) for j in selected]
MmrReturn ==
    /\ pc = "mmr_call"
    /\ ~(Len(selected) < mmr_target(uniq, search_k))
    /\ mmr_out' = pick_idxs(uniq, selected)
    /\ pc' = "mmr_returned"
    /\ UNCHANGED <<selected, notDiversityVars>>

NextDiversity == MmrIterate \/ MmrReturn

SpecDiversity == InitDiversity /\ [][NextDiversity]_vars

(***************************************************************************)
(* Vocabulary of the properties.                                           *)
(***************************************************************************)
\* _pick_with_filters has returned: chosen is its result
Returned == pc \in {"respond", "done"}

\* the minimum-unique branch replaced the staged list
OverrideFired == "min_unique" \in ran

\* s is a prefix of t
IsPrefix(s, t) == Len(s) <= Len(t) /\ SubSeq(t, 1, Len(s)) = s

\* position of x in the duplicate-free list s
PosIn(x, s) == CHOOSE n \in 1..Len(s) : s[n] = x

\* the requested category occurs in the row's category, ignoring case
CategoryContains(i, f) == contains(lower(f.category), lower(Catalog[i].category))

\* the requested brand equals the row's brand, ignoring case
BrandEquals(i, f) == lower(Catalog[i].brand) = lower(f.brand)

\* the row satisfies every set field of f, containment read as plain substring
Satisfies(i, f) ==
    /\ truthy(f.brand) => BrandEquals(i, f)
    /\ truthy(f.category) => CategoryContains(i, f)
    /\ f.price_min # <<>> => f.price_min[1] <= Catalog[i].price
    /\ f.price_max # <<>> => Catalog[i].price <= f.price_max[1]
    /\ truthy(f.tags_contains) =>
           contains(lower(f.tags_contains), lower(Catalog[i].tags))

\* no two entries of the list with different ids share a dedup key
NoDupKeys(l) ==
    \A m, n \in 1..Len(l) :
        Catalog[l[m]].id # Catalog[l[n]].id =>
            <<norm(Catalog[l[m]].title), norm(Catalog[l[m]].brand)>>
                # <<norm(Catalog[l[n]].title), norm(Catalog[l[n]].brand)>>

\* the dedup keys present in the candidate pool
PoolKeys == { <<norm(Catalog[i].title), norm(Catalog[i].brand)>> : i \in Range(cand_idxs) }

\* some query token occurs in the row's title, description or tags
TokenOverlap(i, utext) ==
    \E tok \in token_set(lower(utext)) :
        \/ contains(tok, lower(Catalog[i].title))
        \/ contains(tok, lower(Catalog[i].description))
        \/ contains(tok, lower(Catalog[i].tags))

\* the keys of the trace that the stages, the fallback and the final pruning write
OtherTraceKeys ==
    { "intent", "filled_relaxed", "filled_category_relax", "filled_any_relax",
      "fallback", "post_filter_pruned", "requested_top_k", "returned" }

(***************************************************************************)
(* Properties.                                                             *)
(***************************************************************************)
\* C1: with a category set and the minimum-unique override not fired, every
\* entry of the list the pipeline returns has a category that contains the
\* requested category (case-insensitive substring), and stage 3 did not run.
C1_CategoryNeverRelaxed ==
    (Returned /\ truthy(filters.category) /\ ~OverrideFired) =>
        /\ \A i \in Range(chosen) : CategoryContains(i, filters)
        /\ "any_relax" \notin ran

\* C2: with a brand set and the minimum-unique override not fired, every entry
\* of the list the pipeline returns has the requested brand, ignoring case,
\* whichever of stages 1-3 contributed it.
C2_BrandStrict ==
    (Returned /\ truthy(filters.brand) /\ ~OverrideFired) =>
        \A i \in Range(chosen) : BrandEquals(i, filters)

\* C2 witness: a brand is set, stage 3 added an entry to a non-empty strict
\* result, a candidate of another brand was in the pool, no override.
C2_Witness ==
    /\ pc = "done" /\ truthy(filters.brand) /\ ~OverrideFired
    /\ "any_relax" \in ran
    /\ stage1 # <<>> /\ Len(chosen) > Len(stage1)
    /\ \E i \in Range(cand_idxs) : ~BrandEquals(i, filters)

\* C3: no result list of a query (the pipeline's list, staged or rebuilt by the
\* override, the keyword fallback's list, the products of the response) holds
\* two entries with different ids and equal normalized (title, brand) keys.
\* Stated for the queries whose search returned at least two candidates.
C3_NoDuplicateKeys ==
    /\ Returned => NoDupKeys(chosen)
    /\ (pc = "done" /\ Len(cand_idxs) >= 2) =>
           NoDupKeys(fallback_idxs) /\ NoDupKeys(products)

\* C4: if fewer than minUnique entries are chosen after stages 1-3 and the
\* candidate pool holds at least minUnique distinct dedup keys, the returned
\* list has at least minUnique entries.  Stated for the requests with
\* topK >= 1.
C4_MinUniqueGuarantee ==
    ( /\ Returned /\ top_k >= 1
      /\ Len(staged) < min_unique /\ Cardinality(PoolKeys) >= min_unique )
        => Len(chosen) >= min_unique

\* C5: whenever the minimum-unique override rebuilt the list, the trace of the
\* response has a field that records it (a key other than those the stages,
\* the fallback and the pruning write).
C5_OverrideFlagged ==
    (pc = "done" /\ OverrideFired) => \E k \in DOMAIN trace : k \notin OtherTraceKeys

\* what a step taken from stage 2 or stage 3 must do to the chosen list
StageStepAppends ==
    pc \in {"stage2", "stage3"} =>
        /\ IsPrefix(chosen, chosen')
        /\ IsPrefix(stage1, chosen')
        /\ ~({"category_relax", "any_relax"} \subseteq ran')

\* C6: across stages 2 and 3 the chosen list only grows, the earlier list kept
\* as an unchanged prefix (so the stage 1 entries stay first), and at most one
\* of stage 2 and stage 3 runs in a query.
C6_StagesOnlyAppend == [][StageStepAppends]_vars

\* C6 witness: stage 2 has appended to a non-empty stage 1 result.
C6_Witness ==
    /\ pc = "stage3" /\ "category_relax" \in ran
    /\ stage1 # <<>> /\ Len(chosen) > Len(stage1)

\* C7: for a non-negative topK the returned list has at most topK entries
\* unless the minimum-unique override fired.
C7_AtMostTopK ==
    (Returned /\ top_k >= 0 /\ ~OverrideFired) => Len(chosen) <= top_k

\* C7 witness: more candidates than topK pass, the list stops at topK >= 2.
C7_Witness ==
    /\ pc = "done" /\ ~OverrideFired /\ top_k >= 2
    /\ Len(chosen) = top_k /\ Len(cand_idxs) > top_k

\* stage 1 of the pipeline has run: stage1 is the strict stage's output
AfterStage1 == pc \in {"stage2", "stage3", "min_unique", "respond", "done"}

\* the constraint {brand: Nike, category: t-shirt} of the concrete scenario
ScenarioFilters ==
    [brand |-> <<"N","i","k","e">>, category |-> <<"t","-","s","h","i","r","t">>,
     price_min |-> <<>>, price_max |-> <<>>, tags_contains |-> <<>>]

\* the candidates are rows a, b, c of the scenario in some order
ScenarioCandidates == Len(cand_idxs) = 3 /\ Range(cand_idxs) = {1, 2, 3}

\* C8 as claimed: the strict stage output is exactly the candidates whose entry
\* satisfies every set constraint field, in candidate order.  Stated for the
\* requests with topK >= 1.
C8_StrictKeepsEveryMatch ==
    (AfterStage1 /\ top_k >= 1) =>
        stage1 = SelectSeq(cand_idxs, LAMBDA i : Satisfies(i, filters))

\* C8: the strict stage output is, in candidate order, the candidates that
\* apply_filters admits, except those whose dedup key an earlier chosen
\* candidate has and those met after topK entries are chosen; in the scenario
\* (rows a, b, c in any order, brand Nike, category t-shirt, topK >= 1) the
\* output is exactly [a].
C8_StrictStage ==
    AfterStage1 =>
        LET allowed == Range(apply_filters(INDEX_df, filters))
            k == Max(top_k, 0)
        IN  /\ Range(stage1) \subseteq Range(cand_idxs) \cap allowed
            /\ \A m, n \in 1..Len(stage1) :
                   m < n => /\ PosIn(stage1[m], cand_idxs) < PosIn(stage1[n], cand_idxs)
                            /\ KeyOf[stage1[m]] # KeyOf[stage1[n]]
            /\ Len(stage1) <= k
            /\ \A c \in (Range(cand_idxs) \cap allowed) \ Range(stage1) :
                   \/ \E e \in Range(stage1) :
                          /\ KeyOf[e] = KeyOf[c]
                          /\ PosIn(e, cand_idxs) < PosIn(c, cand_idxs)
                   \/ /\ Len(stage1) = k
                      /\ \A e \in Range(stage1) :
                             PosIn(e, cand_idxs) < PosIn(c, cand_idxs)
            /\ (filters = ScenarioFilters /\ ScenarioCandidates /\ top_k >= 1)
                   => stage1 = <<1>>

\* C8 witness: the scenario with row a ranked last by the search.
C8_Witness ==
    /\ AfterStage1 /\ filters = ScenarioFilters /\ ScenarioCandidates
    /\ top_k >= 1 /\ cand_idxs[3] = 1 /\ stage1 = <<1>>

\* C9: apply_filters returns, in the frame's order, exactly the rows that
\* satisfy every set field (brand equal ignoring case, category and tags
\* containing the requested text ignoring case, price within the inclusive
\* bounds), and applying the filter to its own output changes nothing.
C9_ApplyFiltersExact ==
    /\ pc \in {"again", "applied"} =>
           out = SelectSeq(frame, LAMBDA i : Satisfies(i, filters))
    /\ pc = "applied" => out2 = out

RefPool(f) == Range(apply_filters(INDEX_df, f))

RefPoints(i, utext) ==
    LET text == lower(utext)
        toks == token_set(text)
        row == Catalog[i]
    IN  (IF row.brand # <<>> /\ contains(lower(row.brand), text) THEN 5 ELSE 0)
        + 2 * Cardinality({ t \in toks : contains(t, lower(row.tags)) })
        + Cardinality({ t \in toks : contains(t, lower(row.title))
                                        \/ contains(t, lower(row.description)) })

RefScore(i, utext, f) ==
    IF f.price_max = <<>> THEN 2 * RefPoints(i, utext)
    ELSE IF f.price_max[1] > 0
         THEN 2 * f.price_max[1] * RefPoints(i, utext) + 3 * Catalog[i].price
         ELSE 2 * RefPoints(i, utext) + 3000000 * Catalog[i].price

RefEligible(utext, f) ==
    { i \in RefPool(f) :
        /\ f.price_min # <<>> => Catalog[i].price >= f.price_min[1]
        /\ f.price_max # <<>> => Catalog[i].price <= f.price_max[1]
        /\ truthy(f.category) => CategoryContains(i, f)
        /\ RefScore(i, utext, f) > 0 }

RefBefore(i, j, utext, f) ==
    \/ RefScore(i, utext, f) > RefScore(j, utext, f)
    \/ RefScore(i, utext, f) = RefScore(j, utext, f) /\ i < j

RefFallback(utext, f, k) ==
    LET E == RefEligible(utext, f)
        n == IF k < Cardinality(E) THEN k ELSE Cardinality(E)
    IN  [ m \in 1..n |->
            CHOOSE i \in E : Cardinality({ j \in E : RefBefore(j, i, utext, f) }) = m - 1 ]

\* C11: for topK >= 0 the keyword fallback returns the reference result: the
\* entries of the pre-filtered pool within the price bounds and the category,
\* with a positive score (+5 brand in text, +2 per token in tags, +1 per token
\* in title or description, +1.5*price/max(price_max, eps)), by descending
\* score, ties in catalog order, cut to topK.
C11_FallbackIsReference ==
    ("fallback" \in ran /\ top_k >= 0)
        => fallback_idxs = RefFallback(user_text, filters, top_k)

\* C11 witness: the fallback returned at least two entries of equal score and
\* one of a different score.
C11_Witness ==
    /\ "fallback" \in ran /\ top_k >= 0
    /\ \E m, n \in 1..Len(fallback_idxs) :
           /\ m < n
           /\ RefScore(fallback_idxs[m], user_text, filters)
                = RefScore(fallback_idxs[n], user_text, filters)
    /\ \E m, n \in 1..Len(fallback_idxs) :
           RefScore(fallback_idxs[m], user_text, filters)
                > RefScore(fallback_idxs[n], user_text, filters)

\* C11 witness with a budget: the fallback ranked two entries with price_max set.
C11_WitnessBudget ==
    /\ "fallback" \in ran /\ top_k >= 2
    /\ filters.price_max # <<>> /\ Len(fallback_idxs) >= 2

\* _mmr was called and has returned
MmrReturned ==
    uniq # <<>> /\ pc \in {"searched", "search_done", "similar_done", "responded"}

\* the list _mmr returned
MmrResult == pick_idxs(uniq, selected)

MmrResultAsClaimed ==
    (MmrReturned /\ search_k >= 0) =>
        /\ Len(MmrResult) = (IF search_k < Len(uniq) THEN search_k ELSE Len(uniq))
        /\ \A m, n \in 1..Len(MmrResult) : m # n => MmrResult[m] # MmrResult[n]
        /\ \A m \in 1..Len(MmrResult) : \E n \in 1..Len(uniq) : MmrResult[m] = uniq[n][1]

\* C12: on a de-duplicated candidate list and topK >= 0 the MMR loop ends, and
\* it returns exactly min(topK, number of candidates) indices, pairwise
\* distinct and all taken from the candidate indices.
C12_MmrSelects == [] MmrResultAsClaimed /\ ((pc = "mmr") ~> MmrReturned)

\* C12 witness: _mmr returned after it selected three of four candidates, two
\* of which have the same embedding.
C12_Witness ==
    /\ MmrReturned /\ search_k = 3 /\ Len(uniq) = 4 /\ Len(selected) = 3

\* C12 witness for the truncation: three candidates, two selected.
C12_WitnessCut ==
    /\ MmrReturned /\ search_k = 2 /\ Len(uniq) >= 3 /\ Len(selected) = 2

\* _search is past its de-duplication loop
Deduped ==
    \/ pc \in {"mmr", "searched", "search_done"}
    \/ pc \in {"similar_done", "responded"} /\ rows_with_id(pid) # {}

\* the position of the first occurrence of index i in the raw result
FirstRawPos(i) == CHOOSE m \in 1..Len(raw) : raw[m][1] = i /\ \A n \in 1..(m - 1) : raw[n][1] # i

\* C13: the candidate list handed to the reranker is sorted by non-increasing
\* similarity, has no -1 marker and no index twice; of an index the raw search
\* returned more than once the first occurrence and its score are kept, every
\* valid index is kept once, in the order of first occurrence; an empty raw
\* result gives an empty result of _search.
C13_CandidatesClean ==
    Deduped =>
        /\ \A n \in 1..(Len(uniq) - 1) : uniq[n][2] >= uniq[n + 1][2]
        /\ \A n \in 1..Len(uniq) : uniq[n][1] # NoNeighbour
        /\ \A m, n \in 1..Len(uniq) : m # n => uniq[m][1] # uniq[n][1]
        /\ { uniq[n][1] : n \in 1..Len(uniq) }
             = { raw[n][1] : n \in 1..Len(raw) } \ {NoNeighbour}
        /\ \A n \in 1..Len(uniq) : uniq[n] = raw[FirstRawPos(uniq[n][1])]
        /\ \A m, n \in 1..Len(uniq) :
               m < n => FirstRawPos(uniq[m][1]) < FirstRawPos(uniq[n][1])
        /\ (raw = <<>> /\ pc # "mmr") => scored = <<>>

\* C13 witness: the raw result held an index twice and a marker, and two
\* different indices were kept.
C13_Witness ==
    /\ Deduped /\ Len(uniq) = 2 /\ Len(raw) = 4
    /\ \E m, n \in 1..Len(raw) : m < n /\ raw[m][1] = raw[n][1] /\ raw[m][1] # NoNeighbour
    /\ \E m \in 1..Len(raw) : raw[m][1] = NoNeighbour

\* C13 witness for the empty raw result.
C13_WitnessEmpty == pc = "search_done" /\ raw = <<>> /\ scored = <<>>

\* search_similar_to_id has returned for an id of the catalog
SimilarReturned == pc \in {"similar_done", "responded"} /\ rows_with_id(pid) # {}

\* the entries _search returned other than the looked-up entry
OtherScored == SelectSeq(scored, LAMBDA e : Catalog[e[1]].id # pid)

\* C14: for topK >= 0 search_similar_to_id never returns the looked-up entry
\* and returns at most topK entries; the entry is removed before the cut, so
\* with at least topK other entries found the result has exactly topK entries.
C14_SimilarExcludesSelf ==
    (SimilarReturned /\ top_k >= 0) =>
        /\ \A n \in 1..Len(similar_out) : Catalog[similar_out[n][1]].id # pid
        /\ Len(similar_out) <= top_k
        /\ Len(OtherScored) >= top_k => Len(similar_out) = top_k
        /\ similar_out = SubSeq(OtherScored, 1, Len(similar_out))

\* C14 witness: the search found the entry itself and topK >= 2 others, and
\* exactly topK entries are returned.
C14_Witness ==
    /\ SimilarReturned /\ top_k >= 2
    /\ \E n \in 1..Len(scored) : Catalog[scored[n][1]].id = pid
    /\ Len(scored) = top_k + 1
    /\ Len(similar_out) = top_k

\* C15: a similar-items lookup for an id that is not in the catalog is answered
\* with an explicit failure, not with the successful response of a lookup that
\* found nothing.
C15_UnknownIdFails ==
    (pc = "responded" /\ rows_with_id(pid) = {}) => response.status >= 400

\* the load step of this startup has decided, and no file has changed since
LoadDecided == pc = "compute" \/ (pc = "index" /\ loaded)

\* both cache files are there and readable, and the manifest equals the
\* catalog's id sequence, length and order
ManifestMatches ==
    /\ both_files_exist /\ ~load_raises
    /\ Len(ids_file.data) = Len(catalog_ids)
    /\ \A i \in 1..Len(catalog_ids) : ids_file.data[i] = catalog_ids[i]

\* the in-memory embeddings are the ones computed for the current catalog
EmbeddingsCurrent ==
    /\ Len(self_embeddings) = Len(catalog_ids)
    /\ \A i \in 1..Len(catalog_ids) : self_embeddings[i] = encode_row(catalog_ids[i])

\* C16 as claimed: the cached embeddings are used if and only if the id
\* manifest equals the catalog's id sequence in length and order.
C16_UsedIffManifestMatches == LoadDecided => (loaded <=> ManifestMatches)

\* C16: the cached embeddings are used if and only if both cache files are
\* readable, the id manifest equals the catalog's id sequence in length and
\* order, and the cached matrix has one row per catalog entry; in every other
\* case the embeddings are recomputed and startup goes on without an error.
C16_UsedIffCacheMatches ==
    /\ LoadDecided =>
          (loaded <=> (ManifestMatches /\ Len(emb_file.data) = Len(catalog_ids)))
    /\ (~loaded /\ pc \in {"save_emb", "save_ids", "index", "up"}) => EmbeddingsCurrent
    /\ pc # "failed"

\* C16 witness: the manifest equals the catalog's ids but the cached matrix
\* has another number of rows, and the startup recomputes.
C16_Witness ==
    /\ pc = "compute" /\ ManifestMatches /\ Len(emb_file.data) # Len(catalog_ids)

\* C16 witness for the hit: a cache of two rows is used.
C16_WitnessHit == pc = "index" /\ loaded /\ Len(catalog_ids) = 2

\* C17: after any sequence of startups, write failures included, the in-memory
\* embeddings have one row per catalog entry and row i is the vector computed
\* for the entry at catalog position i.
C17_RowsMatchCatalog == pc \in {"index", "up"} => EmbeddingsCurrent

\* C18: a failure while loading the cache or while persisting the embeddings
\* never fails startup: construction completes with the embeddings computed
\* for the current catalog and the index built over them.
C18_CacheFailuresNotFatal ==
    /\ pc # "failed"
    /\ (pc = "up" /\ failures # {}) => (EmbeddingsCurrent /\ self_index = self_embeddings)

\* C18 witness: a startup came up after the load and the write of the
\* manifest both raised.
C18_Witness == pc = "up" /\ "load" \in failures /\ "save_ids" \in failures

\* C18 witness for a failed write of the matrix.
C18_WitnessMatrix == pc = "up" /\ "save_emb" \in failures

\* the query is past the INDEX check of its handler and not yet answered
InFlight(q) == q_pc[q] \in {"admitted", "searched", "responded"}

\* every attribute of the published object is built, from the catalog on disk
IndexComplete ==
    /\ INDEX = "object"
    /\ obj.df = disk_catalog /\ obj.embeddings = disk_catalog
    /\ obj.index = disk_catalog /\ obj.id_map = disk_catalog

QueriesSeeWholeIndex ==
    \A q \in Qs :
        /\ q_pc[q] = "rejected" => q_seen[q].ref = "None"
        /\ InFlight(q) => (q_seen[q].ref = "object" /\ IndexComplete)
        /\ q_pc[q] \in {"searched", "responded"} =>
               (q_seen[q].embeddings = disk_catalog /\ q_seen[q].index = disk_catalog)
        /\ q_pc[q] = "responded" => q_seen[q].df = disk_catalog

\* a step of a query leaves the object, the global and the other queries alone
QueryStepsReadOnly ==
    (startup_pos' = startup_pos) =>
        /\ obj' = obj /\ INDEX' = INDEX /\ disk_catalog' = disk_catalog
        /\ \A p, q \in Qs : (p # q /\ q_pc'[p] # q_pc[p]) =>
               (q_pc'[q] = q_pc[q] /\ q_seen'[q] = q_seen[q])

\* C19: under any interleaving of queries with the index build a query is
\* rejected when it finds no published index, or works on a completely built
\* index whose catalog, embeddings and search structure come from the same
\* catalog; no query changes the index object, the global or another query.
C19_QueriesSeeWholeIndex == [] QueriesSeeWholeIndex /\ [][QueryStepsReadOnly]_vars

\* C19 witness: one query was rejected before the index was published while
\* another, arrived after, has read the catalog, the embeddings and the index.
C19_Witness ==
    \E p, q \in Qs : q_pc[p] = "rejected" /\ q_pc[q] = "responded"

\* the text has at least three characters from its first to its last non-blank
LongerThanTwoTrimmed(text) ==
    \E i, j \in 1..Len(text) : text[i] # " " /\ text[j] # " " /\ j - i >= 2

\* the phrase occurs in the text, ignoring case, between the first and the last
\* non-blank character of the text
PhraseInTrimmed(phrase, text) ==
    \E i \in 1..Len(text), j \in 1..Len(text) :
        /\ text[i] # " " /\ text[j] # " "
        /\ \E s \in i..j :
              /\ s + Len(phrase) - 1 <= j
              /\ \A n \in 1..Len(phrase) : lowerChar(text[s + n - 1]) = phrase[n]

ExpectedIntent(text, image) ==
    IF image
    THEN (IF LongerThanTwoTrimmed(text) THEN "IMAGE_AND_TEXT" ELSE "IMAGE_SEARCH")
    ELSE IF \E k \in shopping_signals \cup price_signals : PhraseInTrimmed(k, text)
         THEN "TEXT_RECOMMEND"
         ELSE "SMALLTALK"

C20_WitnessPrice ==
    /\ pc = "classified" /\ ~has_image /\ intent = "TEXT_RECOMMEND"
    /\ PhraseInTrimmed(<<"u","n","d","e","r"," ">>, user_text)

\* C20 witness for SMALLTALK: the text ends in "under" and blanks.
C20_WitnessSmalltalk ==
    /\ pc = "classified" /\ ~has_image /\ intent = "SMALLTALK"
    /\ contains(<<"u","n","d","e","r"," ">>, lower(user_text))

\* the numbers N of the phrases "under $N" in the lower-cased text t
UnderAmounts(t) ==
    { to_number(SubSeq(t, i + 7, digits_end(t, i + 7))) :
        i \in { j \in 1..Len(t) :
                  /\ literal_at(t, j, <<"u","n","d","e","r"," ","$">>)
                  /\ digits_end(t, j + 7) >= j + 7 } }

\* the synonym groups with a key in the lower-cased text t
GroupsIn(t) ==
    { g \in 1..Len(CATEGORY_SYNONYMS) :
        \E k \in 1..Len(CATEGORY_SYNONYMS[g][2]) : contains(CATEGORY_SYNONYMS[g][2][k], t) }

RulesBrandCanonical ==
    pc = "extracted" =>
        /\ extracted.brand \in Range(BRANDS)
        /\ contains(lower(extracted.brand), lower(user_text))

RulesCategoryFirstGroup ==
    pc = "extracted" =>
        \A g \in GroupsIn(lower(user_text)) :
            (\A h \in GroupsIn(lower(user_text)) : g <= h)
                => extracted.category = CATEGORY_SYNONYMS[g][1]

RulesCeiling ==
    pc = "extracted" =>
        \A n \in UnderAmounts(lower(user_text)) : extracted.price_max = <<n>>

RulesBandOrdered ==
    (pc = "extracted" /\ extracted.price_min # <<>> /\ extracted.price_max # <<>>)
        => extracted.price_min[1] <= extracted.price_max[1]

\* C21: for a text with a known brand in any letter case, a category synonym
\* and a phrase "under $N", extract_filters_rules returns a known brand in its
\* canonical casing, the canonical category of the first synonym group with a
\* key in the text, and price_max = N; a price band it returns has
\* price_min <= price_max.
C21_ExtractRules ==
    /\ RulesBrandCanonical
    /\ RulesCategoryFirstGroup
    /\ RulesCeiling
    /\ RulesBandOrdered

\* C22: the minimum-unique override replaces the staged list only when the
\* candidate pool holds at least minUnique distinct dedup keys; with fewer
\* distinct keys the pipeline returns the staged list unchanged.
C22_OverrideNeedsDistinctKeys ==
    (Returned /\ Cardinality(PoolKeys) < min_unique) =>
        ~OverrideFired /\ chosen = staged

\* the pipeline has been handed its candidate list
WidePicked == pc \in {"wide_respond", "wide_done"}

\* C23: the stages of the pipeline select from the whole pool the raw search
\* returned: every entry of the fetch window that satisfies all constraints
\* is in the candidate list handed to the strict stage, whether or not the
\* MMR reranker selected it.
C23_PoolIsFetchWindow ==
    WidePicked =>
        \A n \in 1..Len(raw) :
            Satisfies(WideBase[raw[n][1]], filters) => raw[n][1] \in Range(cand_idxs)

\* the largest inner product of candidate j with a candidate at a position in sel
MaxSimToChosen(cands, sel, j) ==
    CHOOSE x \in { dot(Embeddings[cands[j][1]], Embeddings[cands[m][1]]) : m \in sel } :
        \A m \in sel : dot(Embeddings[cands[j][1]], Embeddings[cands[m][1]]) <= x

\* the objective of a later slot for candidate j, in units of 1/250
SlotObjective(cands, sel, j, d) ==
    d * dot(query, Embeddings[cands[j][1]]) - (10 - d) * MaxSimToChosen(cands, sel, j)

\* position j is the one the claim lets slot n take, the slots before it given
SlotAsClaimed(n) ==
    LET j == selected[n]
        before == { selected[m] : m \in 1..(n - 1) }
        free == (1..Len(uniq)) \ before
    IN  /\ j \in free
        /\ IF n = 1
           THEN \A m \in free :
                    /\ uniq[m][2] <= uniq[j][2]
                    /\ uniq[m][2] = uniq[j][2] => j <= m
           ELSE \A m \in free :
                    /\ SlotObjective(uniq, before, m, diversity)
                           <= SlotObjective(uniq, before, j, diversity)
                    /\ SlotObjective(uniq, before, m, diversity)
                           = SlotObjective(uniq, before, j, diversity) => j <= m

\* C24: _mmr picks first the candidate of highest raw similarity and at every
\* later slot, among the candidates not yet chosen, the one that maximizes
\* diversity*simToQuery - (1-diversity)*(largest similarity to a chosen
\* candidate), the lowest position on ties, for every diversity from 0 to 1;
\* the list returned is the chosen entries in selection order.
C24_MmrObjective ==
    /\ pc \in {"mmr_call", "mmr_returned"} => \A n \in 1..Len(selected) : SlotAsClaimed(n)
    /\ pc = "mmr_returned" =>
           /\ Len(mmr_out) = Len(selected)
           /\ \A n \in 1..Len(mmr_out) : mmr_out[n] = uniq[selected[n]][1]

\* C24 witness: with diversity 0 the second slot went to a candidate that is
\* not the most similar to the query among those left.
C24_Witness ==
    /\ pc = "mmr_returned" /\ diversity = 0 /\ Len(selected) >= 3
    /\ \E m \in 1..Len(uniq) :
           /\ m \notin { selected[1], selected[2] }
           /\ uniq[m][2] > uniq[selected[2]][2]

\* C24 witness: with diversity 1 two candidates of equal similarity were
\* taken in the order of their positions.
C24_WitnessTie ==
    /\ pc = "mmr_returned" /\ diversity = 10
    /\ \E n \in 1..(Len(selected) - 1) :
           /\ uniq[selected[n]][2] = uniq[selected[n + 1]][2]
           /\ selected[n] < selected[n + 1]

\* _search has returned a list built from a non-empty candidate list
SearchRanked ==
    /\ pc \in {"searched", "search_done", "similar_done", "responded"}
    /\ uniq # <<>>

\* the adjusted score the claim gives row i, times 2500*mx (mx the price_max
\* when it is set and positive, otherwise 1): similarity dot/25, 0.05 for the
\* brand, 0.03 for the category, 0.02 for the tag, 0.03*price/max(mx, eps) at
\* or below the ceiling (with mx = 0 only a price of 0 is at or below it)
ClaimedAdjusted(i) ==
    LET mx == IF filters.price_max # <<>> /\ filters.price_max[1] > 0
              THEN filters.price_max[1] ELSE 1
    IN  mx * ( 100 * dot(query, Embeddings[i])
               + (IF truthy(filters.brand) /\ BrandEquals(i, filters) THEN 125 ELSE 0)
               + (IF truthy(filters.category) /\ CategoryContains(i, filters) THEN 75 ELSE 0)
               + (IF truthy(filters.tags_contains)
                     /\ contains(lower(filters.tags_contains), lower(Catalog[i].tags))
                  THEN 50 ELSE 0) )
        + (IF filters.price_max # <<>> /\ Catalog[i].price <= filters.price_max[1]
              /\ filters.price_max[1] > 0
           THEN 75 * Catalog[i].price ELSE 0)

\* C25: the list _search returns holds the entries MMR selected (cut at
\* top_k), each with the adjusted score of the claim (similarity plus the
\* brand, category, tag and budget bonuses, no budget bonus above the
\* ceiling), in order of non-increasing adjusted score, entries of equal
\* score in their MMR selection order.
C25_RankedByAdjustedScore ==
    SearchRanked =>
        LET picks == pick_idxs(uniq, selected)
        IN  /\ \A n \in 1..Len(scored) :
                   /\ scored[n][1] \in Range(picks)
                   /\ scored[n][2] = ClaimedAdjusted(scored[n][1])
            /\ Len(scored) = (IF search_k < Len(picks) THEN Max(search_k, 0) ELSE Len(picks))
            /\ \A n \in 1..(Len(scored) - 1) :
                   /\ scored[n][2] >= scored[n + 1][2]
                   /\ scored[n][2] = scored[n + 1][2] =>
                          PosIn(scored[n][1], picks) < PosIn(scored[n + 1][1], picks)

\* C25 witness: a ceiling is set, an entry above it is in the list without the
\* budget bonus, and the bonuses put an entry before one MMR selected earlier.
C25_Witness ==
    /\ SearchRanked /\ filters.price_max # <<>>
    /\ \E n \in 1..Len(scored) : Catalog[scored[n][1]].price > filters.price_max[1]
    /\ \E n \in 1..(Len(scored) - 1) :
           PosIn(scored[n][1], pick_idxs(uniq, selected))
               > PosIn(scored[n + 1][1], pick_idxs(uniq, selected))

\* C25 witness for the ties: two entries of equal adjusted score, adjacent in
\* the list.
C25_WitnessTie ==
    /\ SearchRanked /\ truthy(filters.brand)
    /\ \E n \in 1..(Len(scored) - 1) : scored[n][2] = scored[n + 1][2]

(***************************************************************************)
(* app.py chat: one whole request.  The handler classifies the request,    *)
(* merges the UI's filters with the extracted ones and follows one of four *)
(* branches.  The searches are inputs: any duplicate-free list of catalog  *)
(* positions.  The image may be refused (HTTP 400), and the category read  *)
(* off it is any label or None.                                            *)
(***************************************************************************)
ChatTexts ==
    Texts \cup { <<"h","i">>, <<"b","u","y"," ","z","i","p">>,
                 <<"n","i","k","e"," ","a","d","i","d","a","s">> }

UiFilters ==
    { NoFilters,
      [NoFilters EXCEPT !.brand = <<"N","i","k","e">>],
      [NoFilters EXCEPT !.category = <<"t","-","s","h","i","r","t">>, !.price_max = <<30>>],
      [NoFilters EXCEPT !.brand = <<"P","u","m","a">>,
                        !.tags_contains = <<"A","T","H","L","E","T","I","C">>] }

\* what _infer_category_from_image returns: None or one of _CATEGORY_LABELS
InferredCategories == { <<>>, <<"h","o","o","d","i","e">> }

\* pick(a, b): a if a not in (None, "", []) else b
pick(a, b) == IF a # <<>> THEN a ELSE b

\* final_filters: the UI's field when provided, else the extracted one
merge_filters(u, e) ==
    [brand |-> pick(u.brand, e.brand), category |-> pick(u.category, e.category),
     price_min |-> pick(u.price_min, e.price_min),
     price_max |-> pick(u.price_max, e.price_max),
     tags_contains |-> pick(u.tags_contains, e.tags_contains)]

\* strict_filters: brand and tags from the UI only
strict_of(u, e) ==
    [brand |-> u.brand, category |-> pick(u.category, e.category),
     price_min |-> pick(u.price_min, e.price_min),
     price_max |-> pick(u.price_max, e.price_max),
     tags_contains |-> u.tags_contains]

\* the branch an intent leads to
branch_of(i) ==
    CASE i = "IMAGE_AND_TEXT" -> "image_and_text"
      [] i = "IMAGE_SEARCH" -> "image_search"
      [] i = "TEXT_RECOMMEND" -> "search"
      [] OTHER -> "smalltalk"

InitChat ==
    /\ pc = "chat"
    /\ user_text \in ChatTexts
    /\ has_image \in BOOLEAN
    /\ ui \in UiFilters
    /\ top_k \in TopKs
    /\ intent = ""
    /\ filters = NoFilters
    /\ extracted = << >> /\ final_filters = << >>
    /\ diversity = 0 /\ mmr_out = <<>>
    /\ cand_idxs = <<>> /\ chosen = <<>> /\ stage1 = <<>> /\ staged = <<>>
    /\ ran = {} /\ trace = << >> /\ fallback_idxs = <<>> /\ products = <<>>
    /\ frame = <<>> /\ out = <<>> /\ out2 = <<>>
    /\ SearchIdle /\ BootIdle /\ ConcIdle /\ EvalIdle

\* chat up to the branch: classify_intent, the merged and the strict filters,
\* the SMALLTALK override when any merged filter is present
ChatEntry ==
    /\ pc = "chat"
    /\ LET i0 == classify_intent(user_text, has_image)
           ex == extract_filters_rules(user_text)
           ff == merge_filters(ui, ex)
           ov == i0 = "SMALLTALK" /\ any_filter(ff)
       IN  /\ extracted' = ex
           /\ final_filters' = ff
           /\ filters' = strict_of(ui, ex)
           /\ intent' = IF ov THEN "TEXT_RECOMMEND" ELSE i0
           /\ trace' = IF ov THEN put("intent" :> i0, "intent_override", "filters_present")
                       ELSE ("intent" :> i0)
    /\ pc' = branch_of(intent')
    /\ UNCHANGED <<user_text, top_k, cand_idxs, chosen, stage1, staged, ran,
                   fallback_idxs, products, frame, out, out2>>
    /\ UNCHANGED <<has_image, ui, diversity, mmr_out, searchVars, bootVars, concVars,
                   evalVars>>

\* strict_filters.category = inferred_cat when the request has no category
with_inferred(f, cat) ==
    IF ~truthy(f.category) /\ truthy(cat) THEN [f EXCEPT !.category = cat] ELSE f

inferred_trace(t, f, cat) ==
    IF ~truthy(f.category) /\ truthy(cat) THEN put(t, "category_inferred", cat) ELSE t

\* IMAGE_AND_TEXT up to the call of _pick_with_filters
ImageAndTextSearch ==
    /\ pc = "image_and_text"
    /\ \E cat \in InferredCategories :
        /\ filters' = with_inferred(filters, cat)
        /\ trace' = inferred_trace(trace, filters, cat)
    /\ cand_idxs' \in CandLists
    /\ pc' = "stage1"
    /\ UNCHANGED <<user_text, top_k, chosen, stage1, staged, ran,
                   fallback_idxs, products, frame, out, out2>>
    /\ UNCHANGED otherVars

\* IMAGE_SEARCH up to the call of _pick_with_filters
ImageSearch ==
    /\ pc = "image_search"
    /\ \E cat \in InferredCategories :
        /\ filters' = with_inferred(filters, cat)
        /\ trace' = inferred_trace(trace, filters, cat)
    /\ cand_idxs' \in CandLists
    /\ pc' = "stage1"
    /\ UNCHANGED <<user_text, top_k, chosen, stage1, staged, ran,
                   fallback_idxs, products, frame, out, out2>>
    /\ UNCHANGED otherVars

\* raise HTTPException(status_code=400, ...): the image does not decode or is too large
ImageRejected ==
    /\ pc \in {"image_and_text", "image_search"}
    /\ pc' = "rejected"
    /\ UNCHANGED <<user_text, filters, top_k, cand_idxs, chosen, stage1, staged, ran,
                   trace, fallback_idxs, products, frame, out, out2>>
    /\ UNCHANGED otherVars

\* the trace keys an image branch writes after the pipeline returned
image_trace(t, before, after, pruning, k, returned) ==
    LET pruned == Len(before) - Len(after)
        t1 == IF pruning /\ pruned > 0 THEN put(t, "post_filter_pruned", pruned) ELSE t
    IN  put(put(t1, "requested_top_k", k), "returned", returned)

\* the rest of IMAGE_AND_TEXT: pruning by final_filters, de-duplication by id
RespondImageAndText ==
    /\ pc = "respond"
    /\ intent = "IMAGE_AND_TEXT"
    /\ LET kept == post_filter(chosen, final_filters)
       IN  /\ products' = unique_by_id(kept, {})
           /\ trace' = image_trace(trace, chosen, kept, any_filter(final_filters),
                                   top_k, Len(products'))
    /\ pc' = "done"
    /\ UNCHANGED <<user_text, filters, top_k, cand_idxs, chosen, stage1, staged, ran,
                   fallback_idxs, frame, out, out2>>
    /\ UNCHANGED otherVars

\* any([filters.brand, filters.category, filters.price_min is not None,
\*      filters.price_max is not None, final_filters.tags_contains])
image_search_prunes(f, ff) ==
    \/ truthy(f.brand) \/ truthy(f.category) \/ f.price_min # <<>>
    \/ f.price_max # <<>> \/ truthy(ff.tags_contains)

\* the rest of IMAGE_SEARCH: pruning by the strict filters, de-duplication by id
RespondImageSearch ==
    /\ pc = "respond"
    /\ intent = "IMAGE_SEARCH"
    /\ LET pruning == image_search_prunes(filters, final_filters)
           kept == IF pruning THEN prune(chosen, filters) ELSE chosen
       IN  /\ products' = unique_by_id(kept, {})
           /\ trace' = image_trace(trace, chosen, kept, pruning, top_k, Len(products'))
    /\ pc' = "done"
    /\ UNCHANGED <<user_text, filters, top_k, cand_idxs, chosen, stage1, staged, ran,
                   fallback_idxs, frame, out, out2>>
    /\ UNCHANGED otherVars

\* else:  # SMALLTALK -- products = []
Smalltalk ==
    /\ pc = "smalltalk"
    /\ products' = <<>>
    /\ trace' = put(put(trace, "requested_top_k", top_k), "returned", 0)
    /\ pc' = "done"
    /\ UNCHANGED <<user_text, filters, top_k, cand_idxs, chosen, stage1, staged, ran,
                   fallback_idxs, frame, out, out2>>
    /\ UNCHANGED otherVars

NextChat ==
    \/ ChatEntry \/ ImageAndTextSearch \/ ImageSearch \/ ImageRejected
    \/ Search \/ Stage1 \/ Stage2 \/ Stage3 \/ MinUnique
    \/ Respond \/ RespondImageAndText \/ RespondImageSearch \/ Smalltalk

SpecChat == InitChat /\ [][NextChat]_vars

\* C26: the keyword fallback starts only once the pipeline has returned, with
\* an empty list, on the TEXT_RECOMMEND branch; an image request never runs
\* it; the trace holds fallback = "keyword" exactly when the fallback's
\* entries became the products.
FallbackRan == "fallback" \in ran

ImageIntent == intent \in {"IMAGE_AND_TEXT", "IMAGE_SEARCH"}

FallbackRecorded == "fallback" \in DOMAIN trace /\ trace["fallback"] = "keyword"

FallbackStarts == ~FallbackRan /\ FallbackRan'

C26_FallbackOnlyAfterEmptyText ==
    /\ [](FallbackRan => /\ intent = "TEXT_RECOMMEND"
                         /\ pc = "done"
                         /\ "strict" \in ran
                         /\ chosen = <<>>)
    /\ [](~FallbackRan => fallback_idxs = <<>> /\ "fallback" \notin DOMAIN trace)
    /\ [](ImageIntent => ~FallbackRan /\ "fallback" \notin DOMAIN trace)
    /\ [](("fallback" \in DOMAIN trace) <=> (fallback_idxs # <<>>))
    /\ [](("fallback" \in DOMAIN trace) =>
            /\ FallbackRecorded
            /\ products = unique_by_id(post_filter(fallback_idxs, filters), {}))
    /\ [][FallbackStarts => /\ pc = "respond"
                            /\ intent = "TEXT_RECOMMEND"
                            /\ chosen = <<>>
                            /\ "min_unique" \in ran \/ Len(cand_idxs) < min_unique
                                 \/ Len(staged) >= min_unique]_vars

\* a text request whose pipeline returned nothing and whose products are the
\* fallback's, after the whole request was classified and merged
C26_Witness ==
    /\ pc = "done" /\ intent = "TEXT_RECOMMEND" /\ extracted # << >>
    /\ cand_idxs # <<>> /\ chosen = <<>>
    /\ FallbackRan /\ FallbackRecorded /\ products # <<>>

\* an image request whose pipeline returned nothing although the fallback
\* would have found entries: it answers with no product
C26_WitnessImage ==
    /\ pc = "done" /\ ImageIntent /\ chosen = <<>>
    /\ _keyword_fallback(user_text, filters, top_k) # <<>>
    /\ products = <<>> /\ ~FallbackRan

\* the fallback ran and found nothing: nothing is recorded
C26_WitnessNothingFound ==
    /\ pc = "done" /\ FallbackRan /\ fallback_idxs = <<>>
    /\ "fallback" \notin DOMAIN trace

\* C27: a chat response holds at most max(2, min(requested top_k, 24))
\* products, whatever top_k the request carries.
C27_AtMostClampedTopK ==
    pc = "done" => Len(products) <= clamp_top_k(top_k)

\* C28: on the TEXT_RECOMMEND branch with top_k >= 1, a candidate that
\* satisfies every set field of the strict filters means a response with at
\* least one product.
C28_SatisfyingCandidateAnswered ==
    (pc = "done" /\ top_k >= 1 /\ \E n \in 1..Len(cand_idxs) : Satisfies(cand_idxs[n], filters))
        => products # <<>>

\* C29: on the TEXT_RECOMMEND branch with some filter set, every product of
\* the response satisfies every set field of the strict filters, whichever
\* stage contributed it, and no product id occurs twice.
NoDupIds(l) ==
    \A m, n \in 1..Len(l) : m # n => Catalog[l[m]].id # Catalog[l[n]].id

C29_ProductsSatisfyStrictFilters ==
    (pc = "done" /\ any_filter(filters)) =>
        /\ \A n \in 1..Len(products) : Satisfies(products[n], filters)
        /\ NoDupIds(products)

\* the same for filters whose category and tags are plain text
PlainText(s) == \A n \in 1..Len(s) : s[n] # "."

C29_PlainTextFilters ==
    (pc = "done" /\ any_filter(filters)
        /\ PlainText(filters.category) /\ PlainText(filters.tags_contains)) =>
        /\ \A n \in 1..Len(products) : Satisfies(products[n], filters)
        /\ NoDupIds(products)

(***************************************************************************)
(* evaluation/api_endpoints.py: the evaluation jobs.  start_evaluation     *)
(* registers a job under str(uuid.uuid4())[:8] and adds a background task; *)
(* the tasks of different requests run side by side, each one in the steps *)
(* of run_evaluation_task.  The evaluation itself is an input: it returns  *)
(* or raises an Exception at any point.                                    *)
(***************************************************************************)
MaxJobs == 2        \* POST /run requests of one run of the server

\* the values str(uuid.uuid4())[:8] takes
JobIds == { "0a1b2c3d", "4e5f6a7b" }

\* the modes requested: one that run_evaluation_task knows, one it does not
EvalModes == { "all", "bogus" }
KnownModes == { "all", "quick", "retrieval", "intent", "filters", "diversity", "performance" }

\* the record start_evaluation stores
pending_record(id, m) ==
    [job_id |-> id, status |-> "pending", mode |-> m, started_at |-> FALSE,
     completed_at |-> FALSE, error |-> FALSE, results_path |-> ""]

InitEval ==
    /\ pc = "eval"
    /\ EvalIdle
    /\ filters = NoFilters /\ top_k = 0
    /\ extracted = << >> /\ ui = << >> /\ final_filters = << >>
    /\ diversity = 0 /\ mmr_out = <<>>
    /\ ChatIdle /\ SearchIdle /\ BootIdle /\ ConcIdle /\ IntentIdle

notEvalVars == <<pc, filters, top_k, chatVars, searchVars, bootVars, concVars, intentVars,
                 requestVars, diversity, mmr_out>>

\* POST /run
start_evaluation(id, m) ==
    /\ Len(eval_tasks) < MaxJobs
    /\ _running_evals' = put(_running_evals, id, pending_record(id, m))
    /\ eval_tasks' = Append(eval_tasks, [job |-> id, mode |-> m, at |-> "queued"])
    /\ eval_response' = [endpoint |-> "run", code |-> 200, job_id |-> id,
                         status |-> "pending"]
    /\ UNCHANGED <<result_files, notEvalVars>>

\* run_evaluation_task: _running_evals[job_id]["status"] = "running"
TaskStart(n) ==
    /\ eval_tasks[n].at = "queued"
    /\ LET id == eval_tasks[n].job
       IN  _running_evals' = [_running_evals EXCEPT ![id].status = "running",
                                                    ![id].started_at = TRUE]
    /\ eval_tasks' = [eval_tasks EXCEPT ![n].at = "started"]
    /\ UNCHANGED <<result_files, eval_response, notEvalVars>>

\* run_evaluation_task: the evaluation of a known mode returned and
\* evaluator.save_results wrote evaluation/results/<job_id>.json
TaskSave(n) ==
    /\ eval_tasks[n].at = "started"
    /\ eval_tasks[n].mode \in KnownModes
    /\ result_files' = result_files \cup {eval_tasks[n].job}
    /\ eval_tasks' = [eval_tasks EXCEPT ![n].at = "saved"]
    /\ UNCHANGED <<_running_evals, eval_response, notEvalVars>>

\* run_evaluation_task: the report was written; status = "completed"
TaskComplete(n) ==
    /\ eval_tasks[n].at = "saved"
    /\ LET id == eval_tasks[n].job
       IN  _running_evals' = [_running_evals EXCEPT ![id].status = "completed",
                                                    ![id].completed_at = TRUE,
                                                    ![id].results_path = id]
    /\ eval_tasks' = [eval_tasks EXCEPT ![n].at = "ended"]
    /\ UNCHANGED <<result_files, eval_response, notEvalVars>>

\* run_evaluation_task: except Exception -- the evaluator, the unknown mode,
\* save_results or the report raised; status = "failed"
TaskFail(n) ==
    /\ eval_tasks[n].at \in {"started", "saved"}
    /\ LET id == eval_tasks[n].job
       IN  _running_evals' = [_running_evals EXCEPT ![id].status = "failed",
                                                    ![id].error = TRUE,
                                                    ![id].completed_at = TRUE]
    /\ eval_tasks' = [eval_tasks EXCEPT ![n].at = "ended"]
    /\ UNCHANGED <<result_files, eval_response, notEvalVars>>

\* GET /status/{job_id}
get_evaluation_status(id) ==
    /\ eval_response' =
         IF id \notin DOMAIN _running_evals
         THEN [endpoint |-> "status", code |-> 404, job_id |-> id, status |-> ""]
         ELSE [endpoint |-> "status", code |-> 200, job_id |-> id,
               status |-> _running_evals[id].status]
    /\ UNCHANGED <<_running_evals, eval_tasks, result_files, notEvalVars>>

\* GET /results/{job_id}
get_evaluation_results(id) ==
    /\ eval_response' =
         IF id \notin DOMAIN _running_evals
         THEN [endpoint |-> "results", code |-> 404, job_id |-> id, status |-> ""]
         ELSE IF _running_evals[id].status # "completed"
         THEN [endpoint |-> "results", code |-> 400, job_id |-> id,
               status |-> _running_evals[id].status]
         ELSE IF _running_evals[id].results_path = ""
                 \/ _running_evals[id].results_path \notin result_files
         THEN [endpoint |-> "results", code |-> 404, job_id |-> id,
               status |-> _running_evals[id].status]
         ELSE [endpoint |-> "results", code |-> 200, job_id |-> id,
               status |-> _running_evals[id].status]
    /\ UNCHANGED <<_running_evals, eval_tasks, result_files, notEvalVars>>

\* the steps of the background tasks
TaskStep ==
    \E n \in 1..Len(eval_tasks) :
        TaskStart(n) \/ TaskSave(n) \/ TaskComplete(n) \/ TaskFail(n)

NextEval ==
    \/ \E id \in JobIds, m \in EvalModes : start_evaluation(id, m)
    \/ \E n \in 1..Len(eval_tasks) : TaskStart(n)
    \/ \E n \in 1..Len(eval_tasks) : TaskSave(n)
    \/ \E n \in 1..Len(eval_tasks) : TaskComplete(n)
    \/ \E n \in 1..Len(eval_tasks) : TaskFail(n)
    \/ \E id \in JobIds : get_evaluation_status(id)
    \/ \E id \in JobIds : get_evaluation_results(id)

\* every background task added is run to its end
SpecEval == InitEval /\ [][NextEval]_vars /\ WF_vars(TaskStep)

\* C30: a job's status moves only pending -> running -> completed or
\* pending -> running -> failed, completed and failed never change, a task
\* that started ends with its job completed or failed, and the results
\* endpoint answers with results only for a job whose status is completed.
StatusMoves == { <<"pending", "running">>, <<"running", "completed">>,
                 <<"running", "failed">> }

Finished == { "completed", "failed" }

StatusMovesAsClaimed ==
    \A id \in DOMAIN _running_evals :
        /\ id \in DOMAIN _running_evals'
        /\ \/ _running_evals'[id].status = _running_evals[id].status
           \/ <<_running_evals[id].status, _running_evals'[id].status>> \in StatusMoves

TaskEndsFinished ==
    \A n \in 1..Len(eval_tasks) :
        (eval_tasks[n].at # "ended" /\ eval_tasks'[n].at = "ended")
            => _running_evals'[eval_tasks[n].job].status \in Finished

ResultsServedWhileCompleted ==
    (eval_response' # eval_response /\ eval_response'.endpoint = "results"
        /\ eval_response'.code = 200)
        => /\ _running_evals[eval_response'.job_id].status = "completed"
           /\ _running_evals'[eval_response'.job_id].status = "completed"

TaskAt(n, at) == n <= Len(eval_tasks) /\ eval_tasks[n].at = at

EveryStartedTaskEnds ==
    \A n \in 1..MaxJobs : TaskAt(n, "started") ~> TaskAt(n, "ended")

C30_JobStatusMachine ==
    /\ [][StatusMovesAsClaimed /\ TaskEndsFinished /\ ResultsServedWhileCompleted]_vars
    /\ EveryStartedTaskEnds

\* the same while no two requests drew the same job id
DistinctJobIds ==
    \A m, n \in 1..Len(eval_tasks) : m # n => eval_tasks[m].job # eval_tasks[n].job

C30_WithDistinctJobIds ==
    /\ [][DistinctJobIds' =>
            StatusMovesAsClaimed /\ TaskEndsFinished /\ ResultsServedWhileCompleted]_vars
    /\ [][TaskEndsFinished /\ ResultsServedWhileCompleted]_vars
    /\ EveryStartedTaskEnds

====
